---- MODULE Spec2Model ----
(***************************************************************************)
(* A model of the Baseline music-library tools.                            *)
(*                                                                         *)
(* Text that the code inspects character by character (locations, paths,   *)
(* artist/title/key, CSV headers) is a sequence of one-character strings.  *)
(* Identifiers that the code only compares or tests for emptiness          *)
(* (TrackID, playlist TRACK Key) are plain strings.                        *)
(* Tempos are kept in hundredths of a BPM; every tempo the model draws is  *)
(* either a multiple of 0.25 (exact in binary floating point) or is never  *)
(* at a distance of exactly 0.75 from another drawn tempo, so the integer  *)
(* arithmetic below agrees with the float arithmetic of the code.          *)
(***************************************************************************)
EXTENDS Integers, Sequences, FiniteSets, TLC

VARIABLES
    os_sep,         \* os.sep of the platform the tool runs on
    \* ---- path normalisation runs (fileurl_to_path applied to inputs)
    npc,            \* the applications made so far
    raw,            \* a raw Location, usually a file URL
    plain,          \* the same file written as a plain local path
    norm_raw,       \* fileurl_to_path(raw)
    norm_plain,     \* fileurl_to_path(plain)
    renorm,         \* fileurl_to_path(norm_raw)
    \* ---- one run of analyse()
    pc,             \* position of analyse() in its sequence of passes
    tracks,         \* List[Track]
    tracks_by_key,  \* Dict[str, Track]: TrackID -> index into tracks
    issues,         \* rows of Quality Issues
    dup_groups,     \* rows of the Duplicates sheet
    playlists,      \* parse_playlists(xml_path)
    used_keys,      \* set of TRACK Keys used by a playlist
    broken_rows,    \* rows of Broken Playlist Refs
    orphan_rows,    \* rows of Orphans
    mik_csv,        \* the MIK CSV file given with --mik-csv (NoFile if none)
    mik,            \* read_mik_csv(mik_csv)
    mik_rows,       \* rows of MIK Compare
    \* ---- the arguments and the surroundings of that run
    do_missing_files,   \* not --no-missing-files
    do_artwork,         \* not --no-artwork-scan
    low_bitrate_mp3,    \* --low-bitrate-mp3
    MUTAGEN_OK,         \* mutagen could be imported
    OPENPYXL_OK,        \* openpyxl could be imported
    fs,                 \* the audio files on disk, see FileSystems
    music_root,         \* --music-root and the files under it, see MusicRoots
    \* ---- the file passes and the outcome of the run
    missing_file_rows,  \* rows of Missing Files
    artwork_rows,       \* rows of Artwork Scan
    no_art_paths,       \* the paths written to no_artwork.m3u8
    written,            \* the report files written so far
    error,              \* the exception that ended the run, NoError if none
    \* ---- one call of parse_playlists()
    ppc,                \* its position: "start", "loop" (the loop is over), "returned"
    xml_doc,            \* the PLAYLISTS element of the document, as a tree
    pp_playlists,       \* its local list playlists
    pp_uniq,            \* the list it returns
    \* ---- one call of rename_from_csv() (filename_apply_renames.py)
    ren_pc,             \* its position: "rows", "returned", "failed"
    apply_changes,      \* --apply was given
    ren_csv,            \* the rows of the CSV file
    ren_rows,           \* the rows the reader has not yielded yet
    ren_disk0,          \* the folder before the run: file name -> content
    ren_disk,           \* the folder now
    scanned,            \* its local counters
    to_apply,
    renamed,
    mapping,            \* its local name mapping: Unbound, or a list of pairs
    ren_error,          \* the exception that ended the call, NoError if none
    \* ---- one run of mik_prune_missing.py
    prune_pc,           \* its position: "start", "scan", "delete", "done", "failed"
    prune_args,         \* the parsed command line
    prune_db0,          \* the rows of the database table before the run
    prune_db,           \* the rows of the database file (committed)
    prune_txn,          \* the rows as the open connection sees them
    prune_backups,      \* the contents of the backup files created
    prune_missing,            \* the (id, path) pairs still to delete
    prune_report,       \* the contents of the report files written
    \* ---- runs of run_update() (UpdateArt.py), one after the other
    upd_pc,             \* "idle" between runs, "item" before an item, "save" after it
    upd_target,         \* the mode and the file list of the current run
    upd_i,              \* the loop index i
    progress_file,      \* the progress file: <<>> if there is none, else <<content>>
    upd_runs,           \* what each run so far did (history)
    \* ---- runs of analyse() that take its passes in any order
    passes_run,         \* the passes that have run
    \* ---- the GUI (app.py): tool runs started from the UI thread
    threads,            \* the worker threads started so far: the position of each
    after_q,            \* the callbacks scheduled with after(0, ...), oldest first
    controls_enabled,   \* the state of the interactive controls
    run_log_fp,         \* self.run_log_fp: 0 for None, else the run whose file it is
    run_summary_fp,     \* self.run_summary_fp, likewise
    log_files           \* the log and summary files of each run

normVars == <<npc, raw, plain, norm_raw, norm_plain, renorm>>
runVars  == <<pc, tracks, tracks_by_key, issues, dup_groups, playlists, used_keys,
              broken_rows, orphan_rows, mik_csv, mik, mik_rows>>
envVars  == <<do_missing_files, do_artwork, low_bitrate_mp3, MUTAGEN_OK, OPENPYXL_OK, fs,
              music_root>>
fileVars == <<missing_file_rows, artwork_rows, no_art_paths>>
plVars   == <<ppc, xml_doc, pp_playlists, pp_uniq>>
renVars  == <<ren_pc, apply_changes, ren_csv, ren_rows, ren_disk0, ren_disk,
              scanned, to_apply, renamed, mapping, ren_error>>
pruneVars == <<prune_pc, prune_args, prune_db0, prune_db, prune_txn,
               prune_backups, prune_missing, prune_report>>
updVars == <<upd_pc, upd_target, upd_i, progress_file, upd_runs>>
guiVars == <<threads, after_q, controls_enabled, run_log_fp, run_summary_fp, log_files>>
toolVars == <<plVars, renVars, pruneVars, updVars, guiVars>>
vars     == <<os_sep, normVars, runVars, envVars, fileVars, written, error, toolVars, passes_run>>

(***************************************************************************)
(* Bounds of the model.                                                    *)
(***************************************************************************)
MaxSegs == 2
MaxTracks == 3
\* the tracks of a document when the file passes run
MaxFileTracks == 2
\* the children of a playlist folder
MaxKids == 2
\* the rows of a rename CSV
MaxRows == 2
\* the rows of the Mixed In Key table
MaxDbRows == 2
\* the runs of UpdateArt one after the other
MaxRuns == 2

(***************************************************************************)
(* Character-level string helpers (Python str methods).                    *)
(***************************************************************************)
UpperCase == <<"A","B","C","D","E","F","G","H","I","J","K","L","M",
               "N","O","P","Q","R","S","T","U","V","W","X","Y","Z">>
LowerCase == <<"a","b","c","d","e","f","g","h","i","j","k","l","m",
               "n","o","p","q","r","s","t","u","v","w","x","y","z">>
Digits == {"0","1","2","3","4","5","6","7","8","9"}
HexDigits == Digits \cup {"a","b","c","d","e","f","A","B","C","D","E","F"}

UpperSet == {UpperCase[i] : i \in 1..26}
LowerSet == {LowerCase[i] : i \in 1..26}
LowerOf == [c \in UpperSet |-> LowerCase[CHOOSE i \in 1..26 : UpperCase[i] = c]]

IsAlpha(c) == c \in UpperSet \/ c \in LowerSet
IsSpace(c) == c = " "

\* str.lower(), one character
LowerChar(c) == IF c \in UpperSet THEN LowerOf[c] ELSE c

\* str.lower()
Lower(s) == [i \in 1..Len(s) |-> LowerChar(s[i])]

\* s[i:] for a 1-based i
From(s, i) == SubSeq(s, i, Len(s))

\* str.startswith
StartsWith(s, p) == Len(s) >= Len(p) /\ SubSeq(s, 1, Len(p)) = p

\* `p in s` for strings
Contains(s, p) ==
    \E i \in 1..(Len(s) + 1) : i + Len(p) - 1 <= Len(s) /\ SubSeq(s, i, i + Len(p) - 1) = p

\* str.strip(chars): removes the characters of the set cs at both ends
StripChars(s, cs) ==
    IF \A i \in 1..Len(s) : s[i] \in cs THEN <<>>
    ELSE LET a == CHOOSE i \in 1..Len(s) : s[i] \notin cs /\ \A j \in 1..(i-1) : s[j] \in cs
             b == CHOOSE i \in 1..Len(s) : s[i] \notin cs /\ \A j \in (i+1)..Len(s) : s[j] \in cs
         IN  SubSeq(s, a, b)

\* str.strip()
Strip(s) == StripChars(s, {" "})

\* str.replace(old, new) for a one-character old
ReplaceChar(s, old, new) == [i \in 1..Len(s) |-> IF s[i] = old THEN new ELSE s[i]]

\* index of the first character of s that is in cs, or Len(s)+1
FirstOf(s, cs) ==
    IF \E i \in 1..Len(s) : s[i] \in cs
    THEN CHOOSE i \in 1..Len(s) : s[i] \in cs /\ \A j \in 1..(i-1) : s[j] \notin cs
    ELSE Len(s) + 1

RECURSIVE Join(_, _)
\* sep.join(parts)
Join(parts, j) ==
    IF parts = <<>> THEN <<>>
    ELSE IF Len(parts) = 1 THEN parts[1]
    ELSE parts[1] \o j \o Join(Tail(parts), j)

RECURSIVE Flatten(_)
\* the concatenation of a sequence of sequences
Flatten(ss) == IF ss = <<>> THEN <<>> ELSE Head(ss) \o Flatten(Tail(ss))

(***************************************************************************)
(* urllib.parse as fileurl_to_path uses it.                                *)
(***************************************************************************)
\* The character a valid escape %XY stands for.  Bytes of 0x80 and above do
\* not decode as UTF-8 on their own and become the replacement character.
HexPairChar(x, y) ==
    LET p == <<LowerChar(x), LowerChar(y)>>
    IN  CASE p = <<"2","0">> -> " "
          [] p = <<"2","3">> -> "#"
          [] p = <<"2","5">> -> "%"
          [] p = <<"2","f">> -> "/"
          [] p = <<"3","a">> -> ":"
          [] p = <<"3","f">> -> "?"
          [] p = <<"5","c">> -> "\\"
          [] OTHER -> "<U+FFFD>"

RECURSIVE unquote(_)
\* urllib.parse.unquote: a malformed escape is left as it is
unquote(s) ==
    IF s = <<>> THEN <<>>
    ELSE IF s[1] = "%" /\ Len(s) >= 3 /\ s[2] \in HexDigits /\ s[3] \in HexDigits
         THEN <<HexPairChar(s[2], s[3])>> \o unquote(From(s, 4))
         ELSE <<s[1]>> \o unquote(Tail(s))

\* urlparse(loc) for a loc that starts with "file:": what follows the scheme
url_rest(loc) == From(loc, 6)

\* urlparse(loc).netloc: between a leading "//" and the next of "/?#"
url_netloc(loc) ==
    LET r == url_rest(loc)
    IN  IF StartsWith(r, <<"/","/">>)
        THEN SubSeq(r, 3, FirstOf(From(r, 3), {"/","?","#"}) + 1)
        ELSE <<>>

\* urlparse(loc).path: after the netloc, up to the fragment and the query
url_path(loc) ==
    LET r == url_rest(loc)
        a == IF StartsWith(r, <<"/","/">>)
             THEN From(r, FirstOf(From(r, 3), {"/","?","#"}) + 2)
             ELSE r
    IN  SubSeq(a, 1, FirstOf(a, {"#","?"}) - 1)

\* urlparse(loc) raises ValueError("Invalid IPv6 URL"): one of "[" and "]" is
\* in the netloc and the other is not
urlparse_raises(loc) ==
    LET n == url_netloc(loc)
    IN  (\E i \in 1..Len(n) : n[i] = "[") # (\E i \in 1..Len(n) : n[i] = "]")

(***************************************************************************)
(* fileurl_to_path                                                         *)
(***************************************************************************)
FilePrefix == <<"f","i","l","e",":">>

\* re.match(r"^/[A-Za-z]:/", path)
HasSlashDrive(path) ==
    Len(path) >= 4 /\ path[1] = "/" /\ IsAlpha(path[2]) /\ path[3] = ":" /\ path[4] = "/"

fileurl_to_path(loc0) ==
    IF loc0 = <<>> THEN <<>>
    ELSE LET loc == Strip(loc0)
         IN  IF ~StartsWith(Lower(loc), FilePrefix) THEN loc
             ELSE LET path0  == unquote(url_path(loc))
                      netloc == url_netloc(loc)
                      path1  == IF netloc # <<>> /\ Lower(netloc) # <<"l","o","c","a","l","h","o","s","t">>
                                THEN <<"/","/">> \o netloc \o path0
                                ELSE path0
                      path2  == IF HasSlashDrive(path1) THEN Tail(path1) ELSE path1
                  IN  ReplaceChar(path2, "/", os_sep)

(***************************************************************************)
(* Inputs of the normalisation runs: a file, written once as a file URL    *)
(* (as Rekordbox exports it) and once as a plain local path.               *)
(***************************************************************************)
\* names of path segments
SegNames == { <<"a">>, <<"B">>, <<"a"," ","b">> }

RECURSIVE SeqsUpTo(_, _)
\* the sequences over S of length 1..n
SeqsUpTo(S, n) ==
    IF n = 0 THEN {}
    ELSE LET shorter == SeqsUpTo(S, n - 1)
         IN  {<<x>> : x \in S} \cup shorter \cup {Append(q, x) : q \in shorter, x \in S}

\* percent-encoding of a segment as the exporter writes it
PctEncode(seg) ==
    LET enc(c) == IF c = " " THEN <<"%","2","0">> ELSE <<c>>
        F[i \in 0..Len(seg)] == IF i = 0 THEN <<>> ELSE F[i-1] \o enc(seg[i])
    IN  F[Len(seg)]

\* how the URL names the local host
UrlAuthorities == { <<"/","/">>, <<"/","/","l","o","c","a","l","h","o","s","t">>, <<>> }
WinDrives == { <<"M",":">> }

\* (url, plain) pairs naming the same file on a platform whose separator is sp
SameFilePairs(sp) ==
    LET segss == SeqsUpTo(SegNames, MaxSegs)
        \* a plain Windows path may be written with either separator
        plainseps == IF sp = "/" THEN {"/"} ELSE {"\\", "/"}
        roots == IF sp = "/" THEN { <<>> } ELSE WinDrives
        local == { [url   |-> FilePrefix \o au \o <<"/">> \o rt
                                 \o (IF rt = <<>> THEN <<>> ELSE <<"/">>)
                                 \o Join([i \in 1..Len(sg) |-> PctEncode(sg[i])], <<"/">>),
                    plain |-> (IF rt = <<>> THEN <<ps>> ELSE rt \o <<ps>>) \o Join(sg, <<ps>>)]
                   : au \in UrlAuthorities, rt \in roots, sg \in segss, ps \in plainseps }
        \* a network share, UNC style
        share == IF sp = "/" THEN {}
                 ELSE { [url   |-> FilePrefix \o <<"/","/","h","/">>
                                     \o Join([i \in 1..Len(sg) |-> PctEncode(sg[i])], <<"/">>),
                         plain |-> <<"\\","\\","h","\\">> \o Join(sg, <<"\\">>)]
                        : sg \in segss }
    IN  local \cup share

\* further raw locations, with no plain twin
OtherRaw ==
    { <<>>,
      <<" ">>,
      FilePrefix,
      <<" ">> \o FilePrefix \o <<"/","/","/","a">>,
      <<"F","I","L","E",":","/","/","/","a">>,
      FilePrefix \o <<"f","i","l","e","%","3","A","/","/","/","a">>,
      FilePrefix \o <<"/","/","/","a","%","2","0">>,
      FilePrefix \o <<"/","/","/","a","%">>,
      FilePrefix \o <<"/","/","/","a","%","z","z">>,
      FilePrefix \o <<"/","/","/","a","#","b">>,
      FilePrefix \o <<"/","/","/","a","?","b">>,
      FilePrefix \o <<"/","/","L","O","C","A","L","H","O","S","T","/","M",":","/","a">>,
      FilePrefix \o <<"/","/","h","/","M",":","/","a">>,
      FilePrefix \o <<"/","/","/","M",":">>,
      FilePrefix \o <<"/","/","[","/","a">> }

NormInit ==
    /\ os_sep \in {"/", "\\"}
    /\ npc = {}
    /\ \/ \E p \in SameFilePairs(os_sep) : raw = p.url /\ plain = p.plain
       \/ \E r \in OtherRaw : raw = r /\ plain = r
    /\ norm_raw = <<>>
    /\ norm_plain = <<>>
    /\ renorm = <<>>

\* fileurl_to_path(raw) gets to `p = urlparse(loc)` and that raises
fileurl_raises(loc0) ==
    /\ loc0 # <<>>
    /\ StartsWith(Lower(Strip(loc0)), FilePrefix)
    /\ urlparse_raises(Strip(loc0))

\* fileurl_to_path(raw)
NormalizeRaw ==
    /\ "raw" \notin npc /\ "raised" \notin npc
    /\ ~fileurl_raises(raw)
    /\ norm_raw' = fileurl_to_path(raw)
    /\ npc' = npc \cup {"raw"}
    /\ UNCHANGED <<raw, plain, norm_plain, renorm>>

\* fileurl_to_path(raw) when urlparse raises: the ValueError leaves the function
NormalizeRawFails ==
    /\ "raw" \notin npc /\ "raised" \notin npc
    /\ fileurl_raises(raw)
    /\ npc' = npc \cup {"raised"}
    /\ UNCHANGED <<raw, plain, norm_raw, norm_plain, renorm>>

\* fileurl_to_path(plain)
NormalizePlain ==
    /\ "plain" \notin npc /\ "raised" \notin npc
    /\ ~fileurl_raises(plain)
    /\ norm_plain' = fileurl_to_path(plain)
    /\ npc' = npc \cup {"plain"}
    /\ UNCHANGED <<raw, plain, norm_raw, renorm>>

\* fileurl_to_path applied to its own result
Renormalize ==
    /\ "raw" \in npc
    /\ "renorm" \notin npc
    /\ renorm' = fileurl_to_path(norm_raw)
    /\ npc' = npc \cup {"renorm"}
    /\ UNCHANGED <<raw, plain, norm_raw, norm_plain>>


(***************************************************************************)
(* Python dict, which keeps its keys in the order of their first insertion:*)
(* a sequence of <<key, value>> pairs with distinct keys.                  *)
(***************************************************************************)
DictHas(d, k) == \E i \in 1..Len(d) : d[i][1] = k
DictGet(d, k) == d[CHOOSE i \in 1..Len(d) : d[i][1] = k][2]
DictSet(d, k, v) ==
    IF DictHas(d, k)
    THEN [i \in 1..Len(d) |-> IF d[i][1] = k THEN <<k, v>> ELSE d[i]]
    ELSE Append(d, <<k, v>>)
DictKeys(d) == {d[i][1] : i \in 1..Len(d)}

\* attrib.get(k, default) of an XML element, row.get(k, default) of a CSV row
AttrGet(a, k, default) == IF k \in DOMAIN a THEN a[k] ELSE default

(***************************************************************************)
(* Helpers of rekordbox_analyse.py                                         *)
(***************************************************************************)
RECURSIVE CollapseSpaces(_)
\* re.sub(r"\s+", " ", s)
CollapseSpaces(s) ==
    IF s = <<>> THEN <<>>
    ELSE IF IsSpace(s[1])
         THEN <<" ">> \o CollapseSpaces(From(s, FirstOf(s, {c \in {s[i] : i \in 1..Len(s)} : ~IsSpace(c)})))
         ELSE <<s[1]>> \o CollapseSpaces(Tail(s))

norm_ws(s) == Strip(CollapseSpaces(s))

\* float("nan") and float("inf"): values above every tempo; no arithmetic is
\* done on them
FloatNaN == 100000001
FloatInf == 100000002

\* math.isfinite
IsFinite(x) == x # FloatNaN /\ x # FloatInf

\* The numeric literals that occur in the model's documents, with the value
\* float() gives them, in hundredths.  Any other text is not a number.
FloatValue ==
    [ x \in {"0", "0.00", "3", "10", "20", "128.00", "128.40", "128.75", "130.00",
             "128", "320", "2020", "nan", "inf"} |->
        CASE x = "0"      -> 0
          [] x = "128"    -> 12800
          [] x = "320"    -> 32000
          [] x = "2020"   -> 202000
          [] x = "nan"    -> FloatNaN
          [] x = "inf"    -> FloatInf
          [] x = "0.00"   -> 0
          [] x = "3"      -> 300
          [] x = "10"     -> 1000
          [] x = "20"     -> 2000
          [] x = "128.00" -> 12800
          [] x = "128.40" -> 12840
          [] x = "128.75" -> 12875
          [] x = "130.00" -> 13000 ]

\* an attribute or a cell that is not there (a.get(k, default) takes the default)
Absent == "<absent>"

\* safe_float(v, 0.0), in hundredths
safe_float(v) ==
    IF v = Absent THEN 0
    ELSE IF v = "" THEN 0
    ELSE IF v \in DOMAIN FloatValue THEN FloatValue[v]
    ELSE 0

\* safe_int(v, 0): int(float(s)) truncates, and raises for nan and inf,
\* which the except clause turns into the default
safe_int(v) ==
    IF v = Absent THEN 0
    ELSE IF v = "" THEN 0
    ELSE IF v \in DOMAIN FloatValue /\ IsFinite(FloatValue[v]) THEN FloatValue[v] \div 100
    ELSE 0

\* int(round(x)) for x >= 0 in hundredths: Python rounds halves to even
round_int(x) ==
    LET q == x \div 100
        r == x % 100
    IN  IF r < 50 THEN q
        ELSE IF r > 50 THEN q + 1
        ELSE IF q % 2 = 0 THEN q ELSE q + 1

RECURSIVE RemoveParens(_)
\* re.sub(r"\(.*?\)", "", s)
RemoveParens(s) ==
    LET i == FirstOf(s, {"("})
    IN  IF i > Len(s) THEN s
        ELSE LET j == FirstOf(From(s, i + 1), {")"})
             IN  IF i + j > Len(s) THEN s
                 ELSE SubSeq(s, 1, i - 1) \o RemoveParens(From(s, i + j + 1))

IsLowerAlnum(c) == c \in Digits \/ c \in LowerSet

RECURSIVE PunctToSpace(_)
\* re.sub(r"[^a-z0-9]+", " ", s)
PunctToSpace(s) ==
    IF s = <<>> THEN <<>>
    ELSE IF IsLowerAlnum(s[1]) THEN <<s[1]>> \o PunctToSpace(Tail(s))
    ELSE <<" ">> \o PunctToSpace(From(s, FirstOf(s, {c \in {s[i] : i \in 1..Len(s)} : IsLowerAlnum(c)})))

norm_key(s) == norm_ws(PunctToSpace(RemoveParens(Lower(s))))

\* Track.title_key
title_key(t) == norm_key(t.artist) \o <<"|">> \o norm_key(t.name)


(***************************************************************************)
(* iter_tracks: the TRACK elements of COLLECTION.  An element is its       *)
(* attribute map; an attribute that is not written is not in the map.      *)
(***************************************************************************)
\* the Track that iter_tracks yields for an element with attributes a
\* (the fields that no pass of the model reads are left out)
Track(a) ==
    LET loc == IF AttrGet(a, "Location", <<>>) # <<>>
               THEN a["Location"]
               ELSE AttrGet(a, "location", <<>>)
    IN  [ track_id      |-> AttrGet(a, "TrackID", ""),
          name          |-> AttrGet(a, "Name", <<>>),
          artist        |-> AttrGet(a, "Artist", <<>>),
          label         |-> AttrGet(a, "Label", <<>>),
          genre         |-> AttrGet(a, "Genre", <<>>),
          year          |-> safe_int(AttrGet(a, "Year", Absent)),
          kind          |-> AttrGet(a, "Kind", <<>>),
          bitrate       |-> safe_int(AttrGet(a, "BitRate", Absent)),
          bpm           |-> safe_float(AttrGet(a, "AverageBpm", Absent)),
          key           |-> AttrGet(a, "Tonality", <<>>),
          duration      |-> safe_int(AttrGet(a, "TotalTime", Absent)),
          location_url  |-> loc,
          location_path |-> fileurl_to_path(loc) ]

\* The TRACK elements a document of the model may hold.
TrackElems ==
    { \* a fully tagged track on drive M:
      [ TrackID |-> "1", Name |-> <<"t">>, Artist |-> <<"x">>, AverageBpm |-> "128.00",
        Tonality |-> <<"8","A">>, TotalTime |-> "10",
        Location |-> FilePrefix \o <<"/","/","l","o","c","a","l","h","o","s","t","/","M",":","/","A">> ],
      \* the same work tagged differently, its location a plain lower-case path
      [ TrackID |-> "2", Name |-> <<"T"," ","(","v",")">>, Artist |-> <<"X">>, AverageBpm |-> "128.40",
        Tonality |-> <<"8","a">>, TotalTime |-> "10",
        Location |-> <<"m",":","/","a">> ],
      \* an element with none of the attributes the passes read
      [ Kind |-> <<>> ],
      \* an untagged track that reuses TrackID 1
      [ TrackID |-> "1", Name |-> <<>>, Artist |-> <<>>, AverageBpm |-> "0.00",
        TotalTime |-> "20", Location |-> <<"/","b">> ],
      \* another track
      [ TrackID |-> "3", Name |-> <<"u">>, Artist |-> <<"y">>, AverageBpm |-> "130.00",
        Tonality |-> <<"9","A">>, TotalTime |-> "20",
        Location |-> FilePrefix \o <<"/","/","/","c">> ] }

\* The TRACK elements of the documents that exercise the attribute parsing
\* and the quality rules.
QualityElems ==
    LET mp3 == <<"M","P","3"," ","F","i","l","e">>
        wav == <<"W","A","V"," ","F","i","l","e">>
        tagged(id, name, kind, bitrate, bpm, year) ==
            [ TrackID |-> id, Name |-> name, Artist |-> <<"a">>, Genre |-> <<"g">>,
              Label |-> <<"l">>, Tonality |-> <<"8","A">>, Year |-> year,
              AverageBpm |-> bpm, Kind |-> kind, BitRate |-> bitrate,
              Location |-> <<"/","q">> \o <<id>> ]
    IN  { tagged("1", <<"n">>, mp3, "320", "128.00", "2020"),
          \* an MP3 below 320 kbit/s whose artist is blank and whose title has
          \* two spaces; no other attribute
          [ TrackID |-> "2", Artist |-> <<" ">>, Name |-> <<"n"," "," ","m">>,
            Kind |-> mp3, BitRate |-> "128" ],
          \* an MP3 with BitRate 0, its title with a part in square brackets
          tagged("3", <<"n"," ","[","x","]">>, mp3, "0", "130.00", "2020"),
          \* another kind below the threshold, its title with a part in parentheses
          tagged("4", <<"N"," ","(","x",")">>, wav, "128", "130.00", "2020"),
          \* special tokens and text where numbers are expected
          tagged("5", <<"n">>, mp3, "nan", "nan", "inf"),
          tagged("6", <<"n">>, mp3, "abc", "inf", "abc") }

(***************************************************************************)
(* Quality issues (analyse, "# Quality issues")                            *)
(***************************************************************************)
\* str.endswith
EndsWith(s, p) == Len(s) >= Len(p) /\ SubSeq(s, Len(s) - Len(p) + 1, Len(s)) = p

\* `not s.strip()`, on the literal text
is_blank_exact(s) == s = <<>>
is_blank(s) == Strip(s) = <<>>

\* f"Low MP3 bitrate (<{low_bitrate_mp3})"
low_bitrate_issue(low) ==
    IF low = 320 THEN "Low MP3 bitrate (<320)"
    ELSE IF low = 128 THEN "Low MP3 bitrate (<128)"
    ELSE "Low MP3 bitrate (<n)"

\* `t.kind.lower().startswith("mp3") and t.bitrate and t.bitrate < low_bitrate_mp3`
low_bitrate(t, low) ==
    StartsWith(Lower(t.kind), <<"m","p","3">>) /\ t.bitrate # 0 /\ t.bitrate < low

\* add(issue)
issue_row(issue, t) ==
    [ Issue |-> issue, TrackID |-> t.track_id, Artist |-> t.artist, Title |-> t.name,
      Genre |-> t.genre, Year |-> t.year, BPM |-> t.bpm, Key |-> t.key,
      BitRate |-> t.bitrate, Kind |-> t.kind, Location |-> t.location_path ]

\* the body of `for t in tracks` under "# Quality issues"
track_issues(t, low) ==
    LET row(cond, issue) == IF cond THEN <<issue_row(issue, t)>> ELSE <<>>
    IN  row(is_blank(t.artist), "Missing Artist")
        \o row(is_blank(t.name), "Missing Title")
        \o row(is_blank(t.genre), "Missing Genre")
        \o row(is_blank(t.label), "Missing Label")
        \o row(t.year = 0, "Missing Year")
        \o row(t.bpm <= 0, "Missing/Zero BPM")
        \o row(is_blank(t.key), "Missing Key")
        \o row(low_bitrate(t, low), low_bitrate_issue(low))
        \o row(Contains(t.name, <<" ", " ">>) \/ Contains(t.artist, <<" ", " ">>),
               "Double spaces in Artist/Title")
        \o row(EndsWith(t.name, <<" ">>) \/ EndsWith(t.artist, <<" ">>),
               "Trailing space in Artist/Title")

quality_issues(ts, low) == Flatten([i \in 1..Len(ts) |-> track_issues(ts[i], low)])

\* int(round(t.bpm)) raises for a tempo that is nan or inf
round_raises(ts) == \E i \in 1..Len(ts) : ~IsFinite(ts[i].bpm)

(***************************************************************************)
(* Duplicate detection (analyse, "# Duplicates")                           *)
(***************************************************************************)
\* 1..n as a sequence
Indices(n) == [i \in 1..n |-> i]

\* A defaultdict(list) filled in one loop over ts, then reported: one row for
\* each key that has more than one track, in the order the keys first occur.
\* keys[i] is the key of ts[i]; inc[i] tells whether ts[i] is added at all.
\* Members stands for the TrackIDs, Artists, Titles and Locations columns:
\* the indices of the group's tracks, in order.
group_rows(dup_type, keys, inc) ==
    LET n == Len(keys)
        members(k) == SelectSeq(Indices(n), LAMBDA j : inc[j] /\ keys[j] = k)
        firsts == SelectSeq(Indices(n),
                     LAMBDA i : inc[i] /\ \A j \in 1..(i-1) : ~(inc[j] /\ keys[j] = keys[i]))
        dups == SelectSeq(firsts, LAMBDA i : Len(members(keys[i])) > 1)
    IN  [g \in 1..Len(dups) |->
            [ DuplicateType |-> dup_type,
              GroupKey      |-> keys[dups[g]],
              Count         |-> Len(members(keys[dups[g]])),
              Members       |-> members(keys[dups[g]]) ]]

\* loc_key without the lower-casing
loc_key_exact(t) == t.location_path

\* key of the by_loc grouping
loc_key(t) == Lower(t.location_path)

\* by location
same_location_rows(ts) ==
    group_rows("Same Location",
               [i \in 1..Len(ts) |-> loc_key(ts[i])],
               [i \in 1..Len(ts) |-> loc_key(ts[i]) # <<>>])

\* by artist+title
same_title_rows(ts) ==
    group_rows("Same Artist+Title",
               [i \in 1..Len(ts) |-> title_key(ts[i])],
               [i \in 1..Len(ts) |-> StripChars(title_key(ts[i]), {"|"}) # <<>>])

\* key of the by_sig grouping: f"{t.title_key()}|{t.duration}|{rbpm}"
sig_key_exact(t) == <<title_key(t), t.duration, t.bpm>>

sig_key(t) ==
    <<title_key(t), t.duration, IF t.bpm # 0 THEN round_int(t.bpm) ELSE 0>>

\* signature (artist+title+duration+rounded bpm)
signature_rows(ts) ==
    group_rows("Signature Match",
               [i \in 1..Len(ts) |-> sig_key(ts[i])],
               [i \in 1..Len(ts) |-> TRUE])


(***************************************************************************)
(* parse_playlists: a fold over the start/end events of iterparse (the     *)
(* events after the root's start event, which next(ctx) consumes).         *)
(***************************************************************************)
Playlist(path, name, node_type, entries, track_keys) ==
    [ path |-> path, name |-> name, node_type |-> node_type,
      entries |-> entries, track_keys |-> track_keys ]

RootName == <<"R","O","O","T">>

stack_path_all(stack) ==
    Join([i \in 1..Len(stack) |-> stack[i][1]], <<"/">>)

\* stack_path(): the names on the stack, without empty ones and ROOT
stack_path(stack) ==
    Join(SelectSeq([i \in 1..Len(stack) |-> stack[i][1]],
                   LAMBDA n : n # <<>> /\ n # RootName),
         <<"/">>)

\* the locals of parse_playlists before the loop
parse_start ==
    [ in_playlists |-> FALSE, stack |-> <<>>, current_tracks |-> <<>>, playlists |-> <<>> ]

\* one iteration of `for event, elem in ctx`
parse_event(st, e) ==
    LET st1 == IF e.event = "start" /\ e.tag = "PLAYLISTS" THEN [st EXCEPT !.in_playlists = TRUE]
               ELSE IF e.event = "end" /\ e.tag = "PLAYLISTS" THEN [st EXCEPT !.in_playlists = FALSE]
               ELSE st
    IN  IF ~st1.in_playlists THEN st1
        ELSE IF e.tag = "NODE" /\ e.event = "start"
        THEN [st1 EXCEPT !.stack = Append(@, <<AttrGet(e.attrib, "Name", <<>>), e.attrib>>),
                         !.current_tracks = <<>>]
        ELSE IF e.tag = "TRACK" /\ e.event = "start"
        THEN IF AttrGet(e.attrib, "Key", "") # ""
             THEN [st1 EXCEPT !.current_tracks = Append(@, e.attrib["Key"])]
             ELSE st1
        ELSE IF e.tag = "NODE" /\ e.event = "end"
        THEN IF st1.stack # <<>>
             THEN LET top       == st1.stack[Len(st1.stack)]
                      rest      == SubSeq(st1.stack, 1, Len(st1.stack) - 1)
                      name      == top[1]
                      node_type == AttrGet(top[2], "Type", "")
                      entries   == safe_int(AttrGet(top[2], "Entries", Absent))
                      full_path == stack_path(rest)
                      full      == IF name # <<>>
                                   THEN StripChars(full_path \o <<"/">> \o name, {"/"})
                                   ELSE full_path
                  IN  [st1 EXCEPT
                         !.stack = rest,
                         !.playlists =
                             IF st1.current_tracks # <<>> \/ entries # 0
                             THEN Append(@, Playlist(full, name, node_type,
                                                     IF entries # 0 THEN entries
                                                     ELSE Len(st1.current_tracks),
                                                     st1.current_tracks))
                             ELSE @,
                         !.current_tracks = <<>>]
             ELSE [st1 EXCEPT !.current_tracks = <<>>]
        ELSE st1

RECURSIVE parse_events(_, _)
\* the loop over all events
parse_events(st, evs) ==
    IF evs = <<>> THEN st ELSE parse_events(parse_event(st, Head(evs)), Tail(evs))

dedupe_by_path_last(ps) ==
    SelectSeq([i \in 1..Len(ps) |-> <<i, ps[i]>>],
              LAMBDA x : \A j \in (x[1] + 1)..Len(ps) : ps[j].path # x[2].path)

\* "# De-dupe by path": the first playlist of each path
dedupe_by_path(ps) ==
    SelectSeq([i \in 1..Len(ps) |-> <<i, ps[i]>>],
              LAMBDA x : \A j \in 1..(x[1] - 1) : ps[j].path # x[2].path)

parse_playlists(evs) ==
    LET uniq == dedupe_by_path(parse_events(parse_start, evs).playlists)
    IN  [i \in 1..Len(uniq) |-> uniq[i][2]]

\* ---- the documents of the model, as event sequences
EvStart(tag, attrib) == [event |-> "start", tag |-> tag, attrib |-> attrib]
EvEnd(tag) == [event |-> "end", tag |-> tag, attrib |-> [none |-> ""]]
\* <TRACK Key=k/>
TrackRef(k) == << EvStart("TRACK", [Key |-> k]), EvEnd("TRACK") >>
\* <NODE ...> body </NODE>
Node(attrib, body) == << EvStart("NODE", attrib) >> \o body \o << EvEnd("NODE") >>
\* <PLAYLISTS><NODE Type="0" Name="ROOT"> body </NODE></PLAYLISTS>
PlaylistsOf(body) ==
    << EvStart("PLAYLISTS", [none |-> ""]) >>
    \o Node([Type |-> "0", Name |-> RootName], body)
    \o << EvEnd("PLAYLISTS") >>

NameP == <<"P">>
NameQ == <<"Q">>
NameF == <<"F">>

PlaylistDocs ==
    { \* no PLAYLISTS element
      <<>>,
      \* one playlist whose third member is no track
      PlaylistsOf(Node([Name |-> NameP, Type |-> "1", Entries |-> "3"],
                       TrackRef("1") \o TrackRef("2") \o TrackRef("99"))),
      \* one playlist that lists an unknown track twice, Entries not written
      PlaylistsOf(Node([Name |-> NameP, Type |-> "1"],
                       TrackRef("99") \o TrackRef("3") \o TrackRef("99"))),
      \* two playlists with the same path
      PlaylistsOf(Node([Name |-> NameP, Type |-> "1", Entries |-> "10"], TrackRef("1"))
                  \o Node([Name |-> NameP, Type |-> "1"], TrackRef("3") \o TrackRef("7"))),
      \* a folder with a playlist in it, and a playlist beside it
      PlaylistsOf(Node([Name |-> NameF, Type |-> "0"],
                       Node([Name |-> NameQ, Type |-> "1"], TrackRef("2") \o TrackRef("8")))
                  \o Node([Name |-> NameP, Type |-> "1"], TrackRef("8"))) }


(***************************************************************************)
(* parse_playlists on documents given as trees.  An element is its tag,    *)
(* its attributes and its children; iterparse walks it in document order.  *)
(***************************************************************************)
XElem(tag, attrib, children) == [tag |-> tag, attrib |-> attrib, children |-> children]
\* <TRACK Key=k/>
XTrack(k) == XElem("TRACK", [Key |-> k], <<>>)
\* <NODE Name=.. Type=.. [Entries=..]> children </NODE>
XNode(name, type, entries, children) ==
    XElem("NODE",
          IF entries = Absent THEN [Name |-> name, Type |-> type]
          ELSE [Name |-> name, Type |-> type, Entries |-> entries],
          children)

RECURSIVE iterparse(_)
\* the start and end events of an element and of all that is in it
iterparse(e) ==
    << EvStart(e.tag, e.attrib) >>
    \o Flatten([i \in 1..Len(e.children) |-> iterparse(e.children[i])])
    \o << EvEnd(e.tag) >>

\* the events of a document after the root's start event: a COLLECTION with
\* one track, then the PLAYLISTS element
doc_events(playlists_elem) ==
    iterparse(XElem("COLLECTION", [Entries |-> "1"],
                    << XElem("TRACK", [TrackID |-> "1"], <<>>) >>))
    \o iterparse(playlists_elem)

\* a playlist node with the given members
XPlaylist(name, entries, keys) ==
    XNode(name, "1", entries, [i \in 1..Len(keys) |-> XTrack(keys[i])])

\* the declared entry counts of the model: none, zero, three
EntryDecls == {Absent, "0", "3"}

LeafNodes ==
    { XPlaylist(n, e, ks) : n \in {NameP, NameQ}, e \in EntryDecls,
                            ks \in {<<>>, <<"1">>, <<"2", "1">>} }

\* what a folder may hold: tracks of its own, and playlists named Q
FolderKids ==
    { XTrack("1"), XTrack("2"), XPlaylist(NameQ, Absent, <<"2">>), XPlaylist(NameQ, "3", <<>>) }

FolderNodes ==
    { XNode(n, "0", e, kids) : n \in {NameF, NameP}, e \in {Absent, "3"},
                               kids \in SeqsUpTo(FolderKids, MaxKids) }

\* what may follow the first node under ROOT
TailNodes ==
    { <<>>,
      << XPlaylist(NameP, Absent, <<"3">>) >>,
      << XNode(NameF, "0", Absent, << XPlaylist(NameQ, Absent, <<"1">>) >>) >> }

\* <PLAYLISTS><NODE Type="0" Name="ROOT"> nodes </NODE></PLAYLISTS>
XPlaylists(nodes) ==
    XElem("PLAYLISTS", [none |-> ""], << XNode(RootName, "0", Absent, nodes) >>)

XmlDocs ==
    { XPlaylists(<<>>) }
    \cup { XPlaylists(<<a>> \o t) : a \in LeafNodes \cup FolderNodes, t \in TailNodes }

NoDoc == XElem("", [none |-> ""], <<>>)

PlIdle == ppc = "idle" /\ xml_doc = NoDoc /\ pp_playlists = <<>> /\ pp_uniq = <<>>

PlInit == ppc = "start" /\ xml_doc \in XmlDocs /\ pp_playlists = <<>> /\ pp_uniq = <<>>

\* `for event, elem in ctx`: the loop over the events of the document
ParseNodes ==
    /\ ppc = "start"
    /\ pp_playlists' = parse_events(parse_start, doc_events(xml_doc)).playlists
    /\ ppc' = "loop"
    /\ UNCHANGED <<xml_doc, pp_uniq>>

\* "# De-dupe by path" and the return
DedupePlaylists ==
    /\ ppc = "loop"
    /\ pp_uniq' = LET uniq == dedupe_by_path(pp_playlists)
                  IN  [i \in 1..Len(uniq) |-> uniq[i][2]]
    /\ ppc' = "returned"
    /\ UNCHANGED <<xml_doc, pp_playlists>>

(***************************************************************************)
(* Playlist analysis (analyse, "# Playlist analysis")                      *)
(***************************************************************************)
\* used_keys after the loop over the playlists
used_keys_of(pls) ==
    UNION { {pls[i].track_keys[j] : j \in 1..Len(pls[i].track_keys)} : i \in 1..Len(pls) }

\* the rows one playlist adds to broken_rows: one for each k of its
\* track_keys that is not in tracks_by_key
broken_rows_of(p, tbk) ==
    LET missing == SelectSeq(p.track_keys, LAMBDA k : ~DictHas(tbk, k))
    IN  [j \in 1..Len(missing) |-> [PlaylistPath |-> p.path, MissingTrackKey |-> missing[j]]]

\* broken_rows after the loop over the playlists
broken_refs(pls, tbk) ==
    Flatten([i \in 1..Len(pls) |-> broken_rows_of(pls[i], tbk)])

\* orphan_rows: the entries of tracks_by_key whose key no playlist uses
orphans(ts, tbk, used) ==
    LET un == SelectSeq(tbk, LAMBDA kv : kv[1] \notin used)
    IN  [j \in 1..Len(un) |->
            [ TrackKey |-> un[j][1],
              TrackID  |-> ts[un[j][2]].track_id,
              Artist   |-> ts[un[j][2]].artist,
              Title    |-> ts[un[j][2]].name,
              Location |-> ts[un[j][2]].location_path ]]

(***************************************************************************)
(* read_mik_csv.  A CSV file is its header (fieldnames) and its rows, each *)
(* row a map from column name to cell.                                     *)
(***************************************************************************)
NoCol == "<None>"
\* mik_csv is None, or names no file: no file; else <<f>> for the file f
NoFile == <<>>

\* find_col: the first candidate that equals a column name ignoring case,
\* else the first candidate that a column name contains; the first such column
find_col(cols, cands) ==
    LET hit(m(_, _)) ==
            SelectSeq(Flatten([a \in 1..Len(cands) |-> [c \in 1..Len(cols) |-> <<a, c>>]]),
                      LAMBDA x : m(Lower(cols[x[2]]), Lower(cands[x[1]])))
        exact == hit(LAMBDA c, cand : c = cand)
        part  == hit(LAMBDA c, cand : Contains(c, cand))
    IN  IF exact # <<>> THEN cols[exact[1][2]]
        ELSE IF part # <<>> THEN cols[part[1][2]]
        ELSE NoCol

PathCands == << <<"p","a","t","h">>, <<"f","i","l","e">>, <<"f","i","l","e","n","a","m","e">>,
                <<"l","o","c","a","t","i","o","n">>, <<"f","i","l","e","p","a","t","h">>,
                <<"f","i","l","e"," ","p","a","t","h">> >>
BpmCands  == << <<"b","p","m">>, <<"t","e","m","p","o">> >>
KeyCands  == << <<"k","e","y">>, <<"c","a","m","e","l","o","t">>, <<"t","o","n","a","l","i","t","y">> >>

path_col(f) == find_col(f.fieldnames, PathCands)
bpm_col(f)  == find_col(f.fieldnames, BpmCands)
key_col(f)  == find_col(f.fieldnames, KeyCands)

RECURSIVE ReplaceDoubleBackslash(_)
\* str.replace("\\\\", "\\"): two backslashes become one
ReplaceDoubleBackslash(s) ==
    IF Len(s) < 2 THEN s
    ELSE IF s[1] = "\\" /\ s[2] = "\\" THEN <<"\\">> \o ReplaceDoubleBackslash(From(s, 3))
    ELSE <<s[1]>> \o ReplaceDoubleBackslash(Tail(s))

\* the path of a row as read_mik_csv stores it
mik_path(f, row) ==
    LET rawp == IF path_col(f) # NoCol THEN AttrGet(row, path_col(f), <<>>) ELSE <<>>
    IN  Strip(ReplaceDoubleBackslash(ReplaceChar(rawp, "/", os_sep)))

\* the body of `for row in reader`
mik_add_row(f, data, row) ==
    LET p == mik_path(f, row)
    IN  IF p = <<>> THEN data
        ELSE DictSet(data, Lower(p),
                     [ path |-> p,
                       bpm  |-> IF bpm_col(f) # NoCol
                                THEN safe_float(AttrGet(row, bpm_col(f), "")) ELSE 0,
                       key  |-> IF key_col(f) # NoCol
                                THEN AttrGet(row, key_col(f), <<>>) ELSE <<>> ])

RECURSIVE mik_rows_loop(_, _, _)
mik_rows_loop(f, data, rows) ==
    IF rows = <<>> THEN data
    ELSE mik_rows_loop(f, mik_add_row(f, data, Head(rows)), Tail(rows))

read_mik_csv(f) == mik_rows_loop(f, <<>>, f.rows)

\* ---- the CSV files of the model
CsvRow(cols, cells) == [c \in {cols[i] : i \in 1..Len(cols)} |->
                          cells[CHOOSE i \in 1..Len(cols) : cols[i] = c]]
CsvFile(cols, cellss) ==
    [ fieldnames |-> cols, rows |-> [r \in 1..Len(cellss) |-> CsvRow(cols, cellss[r])] ]

H_Location == <<"L","o","c","a","t","i","o","n">>
H_BPM      == <<"B","P","M">>
H_Key      == <<"K","e","y">>
H_Title    == <<"T","i","t","l","e">>
H_FilePath == <<"F","i","l","e"," ","P","a","t","h">>
H_Tempo    == <<"T","e","m","p","o">>
H_Camelot  == <<"C","a","m","e","l","o","t">>

MikCsvFiles ==
    { \* Location,BPM,Key
      CsvFile(<<H_Location, H_BPM, H_Key>>,
              << << <<"M",":","/","A">>, "128.75", <<"8","a">> >>,
                 << <<"/","c">>, "128.00", <<"8","A">> >>,
                 << <<"/","z">>, "", <<>> >> >>),
      \* no path-like column
      CsvFile(<<H_Title, H_BPM, H_Key>>,
              << << <<"t">>, "128.00", <<"8","A">> >> >>),
      \* File Path,Tempo,Camelot
      CsvFile(<<H_FilePath, H_Tempo, H_Camelot>>,
              << << <<"/","c">>, "130.00", <<"9"," ","a">> >>,
                 << <<"/","B">>, "128.00", <<>> >>,
                 << <<"m",":","/","a">>, "130.00", <<"8","A">> >> >>) }


(***************************************************************************)
(* MIK compare (analyse, "# MIK compare")                                  *)
(***************************************************************************)
\* the tolerance of the BPM comparison, in hundredths
BPM_TOL == 75

RECURSIVE rb_paths_loop(_, _, _)
rb_paths_loop(ts, i, d) ==
    IF i > Len(ts) THEN d
    ELSE rb_paths_loop(ts, i + 1,
                       IF ts[i].location_path # <<>>
                       THEN DictSet(d, Lower(ts[i].location_path), i)
                       ELSE d)

RECURSIVE rb_paths_exact_loop(_, _, _)
rb_paths_exact_loop(ts, i, d) ==
    IF i > Len(ts) THEN d
    ELSE rb_paths_exact_loop(ts, i + 1,
                             IF ts[i].location_path # <<>>
                             THEN DictSet(d, ts[i].location_path, i)
                             ELSE d)

\* rb_paths_of without the lower-casing of the key
rb_paths_exact(ts) == rb_paths_exact_loop(ts, 1, <<>>)

\* rb_paths: lower-cased location_path -> track (its index in ts)
rb_paths_of(ts) == rb_paths_loop(ts, 1, <<>>)

Abs(x) == IF x < 0 THEN -x ELSE x

\* the test that appends "BPM diff"
bpm_differs(mbpm, tbpm) == mbpm # 0 /\ tbpm # 0 /\ Abs(mbpm - tbpm) >= BPM_TOL

\* the test that appends "Key diff"
key_differs(mkey, tkey) == mkey # <<>> /\ tkey # <<>> /\ norm_key(mkey) # norm_key(tkey)

\* ", ".join(status)
drift_status(m, t) ==
    LET b == bpm_differs(m.bpm, t.bpm)
        k == key_differs(Strip(m.key), t.key)
    IN  IF b /\ k THEN "BPM diff, Key diff"
        ELSE IF b THEN "BPM diff"
        ELSE IF k THEN "Key diff"
        ELSE ""

\* "# missing in MIK"
missing_in_mik_rows(ts, rb, mk) ==
    LET un == SelectSeq(rb, LAMBDA kv : ~DictHas(mk, kv[1]))
    IN  [j \in 1..Len(un) |->
            [ Status |-> "Missing in MIK", TrackID |-> ts[un[j][2]].track_id,
              RB_Path |-> ts[un[j][2]].location_path, MIK_Path |-> <<>>,
              RB_BPM |-> ts[un[j][2]].bpm, MIK_BPM |-> "",
              RB_Key |-> ts[un[j][2]].key, MIK_Key |-> <<>> ]]

\* "# missing in RB"
missing_in_rb_rows(rb, mk) ==
    LET un == SelectSeq(mk, LAMBDA kv : ~DictHas(rb, kv[1]))
    IN  [j \in 1..Len(un) |->
            [ Status |-> "Missing in Rekordbox", TrackID |-> "",
              RB_Path |-> <<>>, MIK_Path |-> un[j][2].path,
              RB_BPM |-> "", MIK_BPM |-> un[j][2].bpm,
              RB_Key |-> <<>>, MIK_Key |-> un[j][2].key ]]

\* "# diffs"
drift_rows(ts, rb, mk) ==
    LET both == SelectSeq(rb, LAMBDA kv : DictHas(mk, kv[1])
                                  /\ drift_status(DictGet(mk, kv[1]), ts[kv[2]]) # "")
    IN  [j \in 1..Len(both) |->
            LET t == ts[both[j][2]]
                m == DictGet(mk, both[j][1])
            IN  [ Status |-> drift_status(m, t), TrackID |-> t.track_id,
                  RB_Path |-> t.location_path, MIK_Path |-> m.path,
                  RB_BPM |-> t.bpm, MIK_BPM |-> m.bpm,
                  RB_Key |-> t.key, MIK_Key |-> Strip(m.key) ]]

\* mik_rows after the three loops
mik_compare(ts, mk) ==
    LET rb == rb_paths_of(ts)
    IN  missing_in_mik_rows(ts, rb, mk) \o missing_in_rb_rows(rb, mk) \o drift_rows(ts, rb, mk)

(***************************************************************************)
(* filename_apply_renames.py.  All files are in one folder; a path is the  *)
(* file name, a sequence of characters; the folder is a function from the  *)
(* names of its files to their contents.                                   *)
(***************************************************************************)
TRUTHY == { <<"y">>, <<"y","e","s">>, <<"t","r","u","e">>, <<"1">>,
            <<"a","p","p","l","y">>, <<"o","k">> }

\* _is_truthy
ren_is_truthy(v) == Lower(Strip(v)) \in TRUTHY

\* the position of the last dot of a name, 0 if it has none
LastDot(name) ==
    IF \E i \in 1..Len(name) : name[i] = "."
    THEN CHOOSE i \in 1..Len(name) :
            name[i] = "." /\ \A j \in (i + 1)..Len(name) : name[j] # "."
    ELSE 0

\* PurePath.suffix and PurePath.stem
path_suffix(name) ==
    IF 1 < LastDot(name) /\ LastDot(name) < Len(name)
    THEN SubSeq(name, LastDot(name), Len(name)) ELSE <<>>
path_stem(name) == SubSeq(name, 1, Len(name) - Len(path_suffix(name)))

DigitStr == <<"1", "2", "3", "4", "5", "6", "7", "8", "9">>

\* f"{stem} ({i}){suffix}"
dedupe_cand(target, i) ==
    path_stem(target) \o <<" ", "(", DigitStr[i], ")">> \o path_suffix(target)

\* _dedupe_target: the target if no such file exists, else the first free
\* candidate (a folder of the model leaves one free among the first nine)
dedupe_target(disk, target) ==
    IF target \notin DOMAIN disk THEN target
    ELSE dedupe_cand(target,
                     CHOOSE i \in 1..9 :
                        /\ dedupe_cand(target, i) \notin DOMAIN disk
                        /\ \A j \in 1..(i - 1) : dedupe_cand(target, j) \in DOMAIN disk)

\* src.rename(dst) on a folder
path_rename(disk, src, dst) ==
    [n \in (DOMAIN disk \ {src}) \cup {dst} |-> IF n = dst THEN disk[src] ELSE disk[n]]

\* no exception
NoError == "<none>"

\* a local name that no statement has assigned
Unbound == "<unbound>"

FileA == <<"a", ".", "m">>
FileB == <<"b", ".", "m">>
FileC == <<"c", ".", "m">>
FileZ == <<"z", ".", "m">>

RenRow(file_path, suggested_filename, apply) ==
    [file_path |-> file_path, suggested_filename |-> suggested_filename, apply |-> apply]

\* the rows a CSV of the model may hold
RenameRows ==
    { RenRow(FileA, FileB, <<"y">>),                        \* the target exists
      RenRow(FileA, <<" ">> \o FileC, <<"Y","e","s"," ">>),  \* a free target
      RenRow(FileB, FileC, <<>>),                           \* not marked
      RenRow(FileB, FileC, <<"n","o">>),                    \* not marked
      RenRow(FileZ, FileC, <<"1">>),                        \* no such source
      RenRow(FileA, FileA, <<"t","r","u","e">>),            \* no change
      RenRow(FileB, <<" ">>, <<"y">>) }                     \* nothing suggested

\* the folders of the model
RenameDisks ==
    { (FileA :> "A") @@ (FileB :> "B"),
      (FileA :> "A") @@ (FileB :> "B") @@ (dedupe_cand(FileB, 1) :> "B1") }

RenIdle ==
    /\ ren_pc = "idle" /\ apply_changes = FALSE
    /\ ren_csv = <<>> /\ ren_rows = <<>> /\ ren_disk0 = <<>> /\ ren_disk = <<>>
    /\ scanned = 0 /\ to_apply = 0 /\ renamed = 0 /\ mapping = Unbound
    /\ ren_error = NoError

\* rename_from_csv entered, the header read: the counters are set to 0;
\* no statement of the function assigns mapping
RenInit ==
    /\ ren_pc = "rows" /\ apply_changes \in BOOLEAN
    /\ ren_csv \in {<<>>} \cup SeqsUpTo(RenameRows, MaxRows)
    /\ ren_rows = ren_csv
    /\ ren_disk0 \in RenameDisks /\ ren_disk = ren_disk0
    /\ scanned = 0 /\ to_apply = 0 /\ renamed = 0 /\ mapping = Unbound
    /\ ren_error = NoError

\* one iteration of `for row in reader`
RenameRow ==
    /\ ren_pc = "rows" /\ ren_rows # <<>>
    /\ LET row == Head(ren_rows)
           src == row.file_path
           suggested == Strip(row.suggested_filename)
           marked == ren_is_truthy(row.apply) /\ suggested # <<>>
           dst == dedupe_target(ren_disk, suggested)
       IN  /\ ren_rows' = Tail(ren_rows)
           /\ scanned' = scanned + 1
           /\ to_apply' = IF marked THEN to_apply + 1 ELSE to_apply
           /\ IF ~marked \/ src \notin DOMAIN ren_disk \/ suggested = src
              THEN \* continue
                   UNCHANGED <<ren_pc, ren_disk, renamed, mapping, ren_error>>
              ELSE IF mapping = Unbound
              THEN \* mapping.append raises NameError, which nothing catches
                   /\ ren_pc' = "failed" /\ ren_error' = "NameError"
                   /\ UNCHANGED <<ren_disk, renamed, mapping>>
              ELSE /\ mapping' = Append(mapping, <<src, dst>>)
                   /\ ren_disk' = IF apply_changes THEN path_rename(ren_disk, src, dst)
                                  ELSE ren_disk
                   /\ renamed' = IF apply_changes THEN renamed + 1 ELSE renamed
                   /\ UNCHANGED <<ren_pc, ren_error>>
    /\ UNCHANGED <<apply_changes, ren_csv, ren_disk0>>

\* `return scanned, to_apply, renamed, mapping` after the last row
RenameReturn ==
    /\ ren_pc = "rows" /\ ren_rows = <<>>
    /\ IF mapping = Unbound
       THEN ren_pc' = "failed" /\ ren_error' = "NameError"
       ELSE ren_pc' = "returned" /\ UNCHANGED ren_error
    /\ UNCHANGED <<apply_changes, ren_csv, ren_rows, ren_disk0, ren_disk,
                   scanned, to_apply, renamed, mapping>>

(***************************************************************************)
(* mik_prune_missing.py on a POSIX system.  A row of the table is its id   *)
(* and its path; PruneFiles are the files that exist.                      *)
(***************************************************************************)
PruneFiles == { <<"/", "a">> }

UriPrefix == <<"f","i","l","e",":","/","/">>
LocalhostPrefix == <<"l","o","c","a","l","h","o","s","t","/">>

RECURSIVE strip_drive_slashes(_)
\* `while s2.startswith("/") and len(s2) > 2 and s2[2] == ":"`
strip_drive_slashes(s2) ==
    IF StartsWith(s2, <<"/">>) /\ Len(s2) > 2 /\ s2[3] = ":"
    THEN strip_drive_slashes(Tail(s2)) ELSE s2

\* normalize_db_path_value, os.name != "nt"
normalize_db_path_value(val) ==
    LET s1 == Strip(val)
        s2 == From(s1, 8)
        s3 == IF StartsWith(Lower(s2), LocalhostPrefix)
              THEN From(s2, Len(LocalhostPrefix) + 1) ELSE s2
        s4 == IF StartsWith(Lower(s1), UriPrefix) THEN strip_drive_slashes(s3) ELSE s1
    IN  ReplaceChar(unquote(s4), "\\", "/")

\* file_exists
file_exists(path_str) == path_str # <<>> /\ path_str \in PruneFiles

\* `apply_changes = bool(args.apply) and not bool(args.dry_run)`
prune_applies_loose(args) == args.apply
prune_applies(args) == args.apply /\ ~args.dry_run

\* the missing list of a table: the rows whose file does not exist
RECURSIVE missing_of(_)
missing_of(rows) ==
    IF rows = <<>> THEN <<>>
    ELSE LET norm_path == normalize_db_path_value(Head(rows).path)
         IN  (IF file_exists(norm_path) THEN <<>> ELSE << <<Head(rows).id, norm_path>> >>)
             \o missing_of(Tail(rows))

\* `missing[: args.limit]` if a limit is given
limit_missing(mis, limit) ==
    IF limit > 0 THEN SubSeq(mis, 1, IF limit < Len(mis) THEN limit ELSE Len(mis)) ELSE mis

\* DELETE FROM table WHERE id = rid
delete_id(rows, rid) == SelectSeq(rows, LAMBDA r : r.id # rid)

PrunePaths == { <<"/", "a">>, <<"/", "g">>, UriPrefix \o <<"/", "a">>, <<>> }
PruneRows == [id : 1..2, path : PrunePaths]
PruneArgs == [apply : BOOLEAN, dry_run : BOOLEAN, no_backup : BOOLEAN,
              report : BOOLEAN, limit : 0..1]

PruneIdle ==
    /\ prune_pc = "idle"
    /\ prune_args = [apply |-> FALSE, dry_run |-> FALSE, no_backup |-> FALSE,
                     report |-> FALSE, limit |-> 0]
    /\ prune_db0 = <<>> /\ prune_db = <<>> /\ prune_txn = <<>>
    /\ prune_backups = {} /\ prune_missing = <<>> /\ prune_report = {}

\* main entered, the arguments parsed, the database file found
PruneInit ==
    /\ prune_pc = "start"
    /\ prune_args \in PruneArgs
    /\ prune_db0 \in {<<>>} \cup SeqsUpTo(PruneRows, MaxDbRows)
    /\ prune_db = prune_db0 /\ prune_txn = prune_db0
    /\ prune_backups = {} /\ prune_missing = <<>> /\ prune_report = {}

\* `if apply_changes and not args.no_backup: backup_db(db_path)`
BackupDb ==
    /\ prune_pc = "start"
    /\ prune_applies(prune_args) /\ ~prune_args.no_backup
    /\ prune_backups' = prune_backups \cup {prune_db}
    /\ prune_pc' = "scan"
    /\ UNCHANGED <<prune_args, prune_db0, prune_db, prune_txn, prune_missing, prune_report>>

SkipBackup ==
    /\ prune_pc = "start"
    /\ ~(prune_applies(prune_args) /\ ~prune_args.no_backup)
    /\ prune_pc' = "scan"
    /\ UNCHANGED <<prune_args, prune_db0, prune_db, prune_txn, prune_backups,
                   prune_missing, prune_report>>

\* connect, read the rows, find the missing files, write the report, and
\* return if there is nothing to delete or the run is a dry-run; else BEGIN
ScanDb ==
    /\ prune_pc = "scan"
    /\ LET mis == limit_missing(missing_of(prune_db), prune_args.limit)
       IN  /\ prune_missing' = mis
           /\ prune_report' = IF prune_args.report THEN prune_report \cup {mis}
                              ELSE prune_report
           /\ prune_pc' = IF mis = <<>> \/ ~prune_applies(prune_args)
                          THEN "done" ELSE "delete"
    /\ UNCHANGED <<prune_args, prune_db0, prune_db, prune_txn, prune_backups>>

\* one DELETE of the loop
DeleteRow ==
    /\ prune_pc = "delete" /\ prune_missing # <<>>
    /\ prune_txn' = delete_id(prune_txn, Head(prune_missing)[1])
    /\ prune_missing' = Tail(prune_missing)
    /\ UNCHANGED <<prune_pc, prune_args, prune_db0, prune_db, prune_backups, prune_report>>

\* conn.commit() after the loop
CommitDeletes ==
    /\ prune_pc = "delete" /\ prune_missing = <<>>
    /\ prune_db' = prune_txn
    /\ prune_pc' = "done"
    /\ UNCHANGED <<prune_args, prune_db0, prune_txn, prune_backups, prune_missing, prune_report>>

\* a DELETE or the commit raises (the database is locked by another
\* program): conn.rollback() and the exception ends the run
DeleteFails ==
    /\ prune_pc = "delete"
    /\ prune_txn' = prune_db
    /\ prune_pc' = "failed"
    /\ UNCHANGED <<prune_args, prune_db0, prune_db, prune_backups, prune_missing, prune_report>>

(***************************************************************************)
(* UpdateArt.py, run_update with one progress file (--progress-file).      *)
(* Indices are those of the code, starting at 0.                           *)
(***************************************************************************)
\* md5_text: distinct texts of the model have distinct digests
md5_text(text) == <<"md5">> \o text

\* build_list_fingerprint
build_list_fingerprint(files) == md5_text(Join(files, <<"\n">>))

\* the content of a progress file; valid is FALSE for a file that was
\* opened for writing and never written
ProgressData(mode, fingerprint, next_index) ==
    [valid |-> TRUE, mode |-> mode, fingerprint |-> fingerprint, next_index |-> next_index]
TruncatedData == [valid |-> FALSE, mode |-> "", fingerprint |-> <<>>, next_index |-> 0]

\* load_progress: None for no file and for a file that is not JSON
load_progress(file) == IF file # <<>> /\ file[1].valid THEN file ELSE <<>>

\* reset_progress
reset_progress(file) == <<>>

\* the start index, lines 871-883
resume_index(saved, mode, fingerprint, nfiles) ==
    IF saved # <<>> /\ saved[1].fingerprint = fingerprint /\ saved[1].mode = mode
    THEN IF saved[1].next_index < 0 \/ saved[1].next_index > nfiles
         THEN 0 ELSE saved[1].next_index
    ELSE 0

UpdFileA == <<"/", "a">>
UpdFileB == <<"/", "b">>
UpdFileC == <<"/", "c">>

\* the targets of the model: a folder, the same folder after a file was
\* added, and a playlist of the folder's files
UpdTargets ==
    { [mode |-> "folder",   files |-> <<UpdFileA, UpdFileB>>],
      [mode |-> "folder",   files |-> <<UpdFileA, UpdFileB, UpdFileC>>],
      [mode |-> "playlist", files |-> <<UpdFileA, UpdFileB>>] }

UpdIdle ==
    /\ upd_pc = "off"
    /\ upd_target = [mode |-> "", files |-> <<>>]
    /\ upd_i = 0 /\ progress_file = <<>> /\ upd_runs = <<>>

\* no run yet, no progress file
UpdInit ==
    /\ upd_pc = "idle"
    /\ upd_target = [mode |-> "", files |-> <<>>]
    /\ upd_i = 0 /\ progress_file = <<>> /\ upd_runs = <<>>

\* the last run's record with one more finished item
NoteFinished(runs, i) ==
    [runs EXCEPT ![Len(runs)].finished = Append(@, i)]

\* run_update up to the loop: the target list, its fingerprint, the
\* progress file reset or loaded, the start index
StartRun(target, no_resume, do_reset) ==
    /\ upd_pc = "idle" /\ Len(upd_runs) < MaxRuns
    /\ LET file == IF do_reset THEN reset_progress(progress_file) ELSE progress_file
           saved == IF ~no_resume /\ ~do_reset THEN load_progress(file) ELSE <<>>
           start_index == resume_index(saved, target.mode,
                                       build_list_fingerprint(target.files),
                                       Len(target.files))
       IN  /\ progress_file' = file
           /\ upd_target' = target
           /\ upd_i' = start_index
           /\ upd_runs' = Append(upd_runs,
                                 [target |-> target, plain |-> ~no_resume /\ ~do_reset,
                                  saved |-> saved, start |-> start_index,
                                  finished |-> <<>>])
    /\ upd_pc' = "item"

\* process_file_interactive returns or raises an Exception for files[i]
ProcessItem ==
    /\ upd_pc = "item" /\ upd_i < Len(upd_target.files)
    /\ upd_runs' = NoteFinished(upd_runs, upd_i)
    /\ upd_pc' = "save"
    /\ UNCHANGED <<upd_target, upd_i, progress_file>>

\* save_progress with next_index = i + 1, the end of the iteration
SaveProgress ==
    /\ upd_pc = "save"
    /\ progress_file' = <<ProgressData(upd_target.mode,
                                       build_list_fingerprint(upd_target.files),
                                       upd_i + 1)>>
    /\ upd_i' = upd_i + 1
    /\ upd_pc' = "item"
    /\ UNCHANGED <<upd_target, upd_runs>>

\* KeyboardInterrupt inside process_file_interactive: `except
\* KeyboardInterrupt` saves next_index = i and leaves the loop
InterruptItem ==
    /\ upd_pc = "item" /\ upd_i < Len(upd_target.files)
    /\ progress_file' = <<ProgressData(upd_target.mode,
                                       build_list_fingerprint(upd_target.files),
                                       upd_i)>>
    /\ upd_pc' = "idle"
    /\ UNCHANGED <<upd_target, upd_i, upd_runs>>

\* KeyboardInterrupt after process_file_interactive has returned and before
\* save_progress has written: no handler encloses these statements, the run
\* ends; the file is as it was, or empty if it was already opened
InterruptSave ==
    /\ upd_pc = "save"
    /\ progress_file' \in {progress_file, <<TruncatedData>>}
    /\ upd_pc' = "idle"
    /\ UNCHANGED <<upd_target, upd_i, upd_runs>>

\* the loop ends after the last file
FinishRun ==
    /\ upd_pc = "item" /\ upd_i >= Len(upd_target.files)
    /\ upd_pc' = "idle"
    /\ UNCHANGED <<upd_target, upd_i, progress_file, upd_runs>>

(***************************************************************************)
(* The file passes of analyse ("# Missing file checks", "# Artwork scan",  *)
(* "# Write issue playlists").  The disk is a record of three sets of      *)
(* paths: the files that are there, those of them with embedded art, and   *)
(* the paths whose stat() fails with an errno that Path.exists() does not  *)
(* take for absence (EACCES, ENAMETOOLONG, ...) and so raises.             *)
(***************************************************************************)
NoFiles == [present |-> {}, with_art |-> {}, stat_error |-> {}]

FileSystems ==
    LET pA == fileurl_to_path(FilePrefix \o <<"/","/","l","o","c","a","l","h","o","s","t","/","M",":","/","A">>)
        pB == fileurl_to_path(<<"/","b">>)
        pC == fileurl_to_path(FilePrefix \o <<"/","/","/","c">>)
    IN  { [present |-> {pA, pC}, with_art |-> {pA}, stat_error |-> {}],
          [present |-> {pA, pC}, with_art |-> {pA}, stat_error |-> {pB}] }

\* `bool(p and p.exists())`, when p.exists() returns
path_exists(disk, path) == path # <<>> /\ path \in disk.present

\* p.exists() raises OSError for the location of some track
exists_raises(disk, ts) ==
    \E i \in 1..Len(ts) : ts[i].location_path # <<>> /\ ts[i].location_path \in disk.stat_error

\* --music-root: whether it was given, whether it is a folder that exists,
\* and the files music_root.rglob("*") yields, in the order it yields them
NoRoot == [given |-> FALSE, exists |-> FALSE, files |-> <<>>]

MusicRoots ==
    LET f1B == <<"/","r","/","1","/","B">>
        f2b == <<"/","r","/","2","/","b">>
        fc  == <<"/","r","/","c">>
    IN  { NoRoot,
          [given |-> TRUE, exists |-> FALSE, files |-> <<>>],
          [given |-> TRUE, exists |-> TRUE, files |-> <<f1B, f2b, fc>>],
          [given |-> TRUE, exists |-> TRUE, files |-> <<f2b, fc, f1B>>] }

\* Path(p).name on a POSIX system
path_name(p) ==
    IF \E i \in 1..Len(p) : p[i] = "/"
    THEN From(p, 1 + CHOOSE i \in 1..Len(p) :
                        p[i] = "/" /\ \A j \in (i + 1)..Len(p) : p[j] # "/")
    ELSE p

RECURSIVE relink_index_last(_)
\* the index with `relink_index[name] = path` in place of setdefault
relink_index_last(files) ==
    IF files = <<>> THEN <<>>
    ELSE DictSet(relink_index_last(SubSeq(files, 1, Len(files) - 1)),
                 Lower(path_name(files[Len(files)])), files[Len(files)])

RECURSIVE relink_index_of(_)
\* `relink_index.setdefault(fp.name.lower(), str(fp))` for each file
relink_index_of(files) ==
    IF files = <<>> THEN <<>>
    ELSE LET before == relink_index_of(SubSeq(files, 1, Len(files) - 1))
             name == Lower(path_name(files[Len(files)]))
         IN  IF DictHas(before, name) THEN before
             ELSE DictSet(before, name, files[Len(files)])

\* relink_index as the file pass builds it
relink_index(root) ==
    IF root.given /\ root.exists THEN relink_index_of(root.files) ELSE <<>>

\* missing_file_rows: one row for each track
\* the row of one track in the missing-files loop
missing_file_row(disk, t, index) ==
    LET p == t.location_path
        exists == path_exists(disk, p)
    IN  [ TrackID  |-> t.track_id,
          Artist   |-> t.artist,
          Title    |-> t.name,
          Location |-> p,
          Exists   |-> IF exists THEN "Y" ELSE "N",
          RelinkSuggestion |->
              IF ~exists /\ index # <<>> /\ p # <<>> /\ DictHas(index, Lower(path_name(p)))
              THEN DictGet(index, Lower(path_name(p))) ELSE <<>> ]

\* the loop if it left out the tracks that the duplicates pass has reported
missing_files_unreported(disk, ts, index) ==
    LET reported(i) == \E g \in 1..Len(dup_groups) :
                           \E m \in 1..Len(dup_groups[g].Members) : dup_groups[g].Members[m] = i
        kept == SelectSeq(Indices(Len(ts)), LAMBDA i : ~reported(i))
    IN  [k \in 1..Len(kept) |-> missing_file_row(disk, ts[kept[k]], index)]

\* "# Missing file checks": `for t in tracks`
missing_files(disk, ts, index) ==
    [i \in 1..Len(ts) |-> missing_file_row(disk, ts[i], index)]

\* artwork_rows: one row for each track whose file is there
artwork_scan(disk, ts) ==
    LET there == SelectSeq(ts, LAMBDA t : path_exists(disk, t.location_path))
    IN  [j \in 1..Len(there) |->
            [ TrackID  |-> there[j].track_id,
              Location |-> there[j].location_path,
              HasArt   |-> IF there[j].location_path \in disk.with_art THEN "Y" ELSE "N" ]]

\* no_art_paths: the locations of the scanned tracks without embedded art
no_art_of(rows) ==
    LET bare == SelectSeq(rows, LAMBDA r : r.HasArt = "N")
    IN  [j \in 1..Len(bare) |-> bare[j].Location]

\* write_m3u8("no_artwork", paths): the files it writes
write_m3u8(paths) == IF paths = <<>> THEN {} ELSE {"no_artwork.m3u8"}

\* "# Write outputs": the files written there (their time stamps left out)
report_files(xlsx_ok, mfr, ar, mr) ==
    {"rekordbox_report.txt", "quality_issues.csv", "duplicates.csv", "playlists.csv",
     "orphans.csv", "broken_playlist_refs.csv"}
    \cup (IF xlsx_ok THEN {"rekordbox_report.xlsx"} ELSE {})
    \cup (IF mfr # <<>> THEN {"missing_files.csv"} ELSE {})
    \cup (IF ar # <<>> THEN {"artwork_scan.csv"} ELSE {})
    \cup (IF mr # <<>> THEN {"mik_compare.csv"} ELSE {})

\* --mik-csv names a directory: it exists, and open() raises
MikDirectory == [is_dir |-> TRUE]

(***************************************************************************)
(* One run of analyse().                                                   *)
(***************************************************************************)
NormIdle ==
    /\ npc = {}
    /\ raw = <<>> /\ plain = <<>>
    /\ norm_raw = <<>> /\ norm_plain = <<>> /\ renorm = <<>>

(***************************************************************************)
(* The GUI (app.py): _run_tool on the UI thread, its worker thread, and    *)
(* the callbacks the worker hands to the UI thread with after(0, ...).     *)
(***************************************************************************)
MaxToolRuns == 3

\* App.__init__: no worker, no run files
GuiIdle ==
    /\ threads = <<>> /\ after_q = <<>> /\ controls_enabled = TRUE
    /\ run_log_fp = 0 /\ run_summary_fp = 0 /\ log_files = <<>>

\* self.worker and self.worker.is_alive(); self.worker is the last thread
worker_is_alive == threads # <<>> /\ threads[Len(threads)] # "dead"

\* _run_tool for a script that exists, called by a UI event while the
\* controls are enabled.  With a worker alive _ensure_not_running shows a
\* warning and _run_tool returns; else _start_run opens the files of a new
\* run, _set_busy(True) is scheduled, and the worker is started.
RunTool ==
    /\ controls_enabled
    /\ ~worker_is_alive
    /\ Len(threads) < MaxToolRuns
    /\ log_files' = Append(log_files, [log |-> "open", summary |-> "open", ended_by |-> 0])
    /\ run_log_fp' = Len(log_files) + 1
    /\ run_summary_fp' = Len(log_files) + 1
    /\ after_q' = Append(after_q, [call |-> "_set_busy", arg |-> 1])
    /\ threads' = Append(threads, "main")
    /\ UNCHANGED controls_enabled

\* worker(): the tool has ended; `finally`: after(0, _set_busy(False))
WorkerSetIdle ==
    \E r \in 1..Len(threads) :
        /\ threads[r] = "main"
        /\ after_q' = Append(after_q, [call |-> "_set_busy", arg |-> 0])
        /\ threads' = [threads EXCEPT ![r] = "restore"]
        /\ UNCHANGED <<controls_enabled, run_log_fp, run_summary_fp, log_files>>

\* worker(): stdout, argv and input restored; after(0, _end_run(ok))
WorkerEndRun ==
    \E r \in 1..Len(threads) :
        /\ threads[r] = "restore"
        /\ after_q' = Append(after_q, [call |-> "_end_run", arg |-> r])
        /\ threads' = [threads EXCEPT ![r] = "return"]
        /\ UNCHANGED <<controls_enabled, run_log_fp, run_summary_fp, log_files>>

\* worker() returns: the thread is no longer alive
WorkerExit ==
    \E r \in 1..Len(threads) :
        /\ threads[r] = "return"
        /\ threads' = [threads EXCEPT ![r] = "dead"]
        /\ UNCHANGED <<after_q, controls_enabled, run_log_fp, run_summary_fp, log_files>>

\* _end_run called for run r: the summary file behind run_summary_fp gets its
\* end lines and is closed, the log file behind run_log_fp is closed
end_run(files, r) ==
    [n \in 1..Len(files) |->
        [ log      |-> IF n = run_log_fp THEN "closed" ELSE files[n].log,
          summary  |-> IF n = run_summary_fp THEN "closed" ELSE files[n].summary,
          ended_by |-> IF n = run_summary_fp THEN r ELSE files[n].ended_by ]]

\* the UI thread runs the oldest scheduled callback
UiCallback ==
    /\ after_q # <<>>
    /\ after_q' = Tail(after_q)
    /\ IF Head(after_q).call = "_set_busy"
       THEN /\ controls_enabled' = (Head(after_q).arg = 0)
            /\ UNCHANGED <<run_log_fp, run_summary_fp, log_files>>
       ELSE /\ log_files' = end_run(log_files, Head(after_q).arg)
            /\ run_log_fp' = 0
            /\ run_summary_fp' = 0
            /\ UNCHANGED controls_enabled
    /\ UNCHANGED threads

RunIdle ==
    /\ pc = "idle"
    /\ tracks = <<>> /\ tracks_by_key = <<>> /\ issues = <<>> /\ dup_groups = <<>>
    /\ playlists = <<>> /\ used_keys = {} /\ broken_rows = <<>> /\ orphan_rows = <<>>
    /\ mik_csv = NoFile /\ mik = <<>> /\ mik_rows = <<>>
    /\ do_missing_files = FALSE /\ do_artwork = FALSE /\ low_bitrate_mp3 = 320
    /\ MUTAGEN_OK = FALSE /\ OPENPYXL_OK = FALSE /\ fs = NoFiles /\ music_root = NoRoot
    /\ missing_file_rows = <<>> /\ artwork_rows = <<>> /\ no_art_paths = <<>>
    /\ written = {} /\ error = NoError /\ passes_run = {}

\* no tool other than analyse is at work
ToolsIdle == PlIdle /\ RenIdle /\ PruneIdle /\ UpdIdle /\ GuiIdle

\* the locals of analyse before the first pass
RunStart ==
    /\ pc = "tracks"
    /\ tracks = <<>> /\ tracks_by_key = <<>> /\ issues = <<>> /\ dup_groups = <<>>
    /\ playlists = <<>> /\ used_keys = {} /\ broken_rows = <<>> /\ orphan_rows = <<>>
    /\ mik_csv = NoFile /\ mik = <<>> /\ mik_rows = <<>>
    /\ missing_file_rows = <<>> /\ artwork_rows = <<>> /\ no_art_paths = <<>>
    /\ written = {} /\ error = NoError /\ passes_run = {}

\* a run with --no-missing-files --no-artwork-scan, openpyxl not installed,
\* over a well-formed document
Init ==
    /\ os_sep \in {"/", "\\"}
    /\ NormIdle
    /\ RunStart
    /\ do_missing_files = FALSE /\ do_artwork = FALSE /\ low_bitrate_mp3 = 320
    /\ MUTAGEN_OK = FALSE /\ OPENPYXL_OK = FALSE /\ fs = NoFiles /\ music_root = NoRoot
    /\ ToolsIdle

\* the longest collection of the model
TrackBound == IF do_missing_files \/ do_artwork THEN MaxFileTracks ELSE MaxTracks

\* `for t in iter_tracks(xml_path)`: the next TRACK element of COLLECTION,
\* one of elems
LoadTrackFrom(elems) ==
    /\ pc = "tracks"
    /\ Len(tracks) < TrackBound
    /\ \E a \in elems :
          LET t == Track(a)
          IN  /\ tracks' = Append(tracks, t)
              /\ tracks_by_key' = IF t.track_id # ""
                                  THEN DictSet(tracks_by_key, t.track_id, Len(tracks) + 1)
                                  ELSE tracks_by_key
    /\ UNCHANGED <<pc, issues, dup_groups, playlists, used_keys, broken_rows, orphan_rows,
                   mik_csv, mik, mik_rows, fileVars, written, error>>

LoadTrack == LoadTrackFrom(TrackElems)

\* the document is not well-formed at the point the parser has reached:
\* iterparse raises ParseError inside the loop, and nothing catches it
ParseError ==
    /\ pc = "tracks"
    /\ pc' = "failed"
    /\ error' = "ParseError"
    /\ UNCHANGED <<tracks, tracks_by_key, issues, dup_groups, playlists, used_keys, broken_rows,
                   orphan_rows, mik_csv, mik, mik_rows, fileVars, written>>

\* the collection is read to its end; "# Quality issues", "# Duplicates"
DetectDuplicates ==
    /\ pc = "tracks"
    /\ ~round_raises(tracks)
    /\ issues' = quality_issues(tracks, low_bitrate_mp3)
    /\ dup_groups' = same_location_rows(tracks) \o same_title_rows(tracks)
                        \o signature_rows(tracks)
    /\ pc' = "playlists"
    /\ UNCHANGED <<tracks, tracks_by_key, playlists, used_keys, broken_rows, orphan_rows,
                   mik_csv, mik, mik_rows, fileVars, written, error>>

\* the same passes over a collection with a tempo that is nan or inf: the
\* signature loop raises ValueError or OverflowError, and nothing catches it
DuplicatesFail ==
    /\ pc = "tracks"
    /\ round_raises(tracks)
    /\ issues' = quality_issues(tracks, low_bitrate_mp3)
    /\ pc' = "failed"
    /\ error' = IF \E i \in 1..Len(tracks) :
                       tracks[i].bpm = FloatNaN /\ \A j \in 1..(i - 1) : IsFinite(tracks[j].bpm)
                THEN "ValueError" ELSE "OverflowError"
    /\ UNCHANGED <<tracks, tracks_by_key, dup_groups, playlists, used_keys, broken_rows,
                   orphan_rows, mik_csv, mik, mik_rows, fileVars, written>>

\* "# Playlist analysis": the second parse of the document, broken refs, orphans
AnalysePlaylists ==
    /\ pc = "playlists"
    /\ \E doc \in PlaylistDocs :
          LET pls == parse_playlists(doc)
          IN  /\ playlists' = pls
              /\ used_keys' = used_keys_of(pls)
              /\ broken_rows' = broken_refs(pls, tracks_by_key)
              /\ orphan_rows' = orphans(tracks, tracks_by_key, used_keys_of(pls))
    /\ pc' = IF do_missing_files \/ do_artwork THEN "files" ELSE "mik"
    /\ UNCHANGED <<tracks, tracks_by_key, issues, dup_groups, mik_csv, mik, mik_rows,
                   fileVars, written, error>>

\* "# Missing file checks", "# Artwork scan" and the issue playlists
ScanFiles ==
    /\ pc = "files"
    /\ ~ ((do_missing_files \/ (do_artwork /\ MUTAGEN_OK)) /\ exists_raises(fs, tracks))
    /\ LET ar == IF do_artwork /\ MUTAGEN_OK THEN artwork_scan(fs, tracks) ELSE <<>>
       IN  /\ missing_file_rows' = IF do_missing_files THEN missing_files(fs, tracks, relink_index(music_root)) ELSE <<>>
           /\ artwork_rows' = ar
           /\ no_art_paths' = no_art_of(ar)
           /\ written' = written \cup write_m3u8(no_art_of(ar))
    /\ pc' = "mik"
    /\ UNCHANGED <<tracks, tracks_by_key, issues, dup_groups, playlists, used_keys, broken_rows,
                   orphan_rows, mik_csv, mik, mik_rows, error>>

\* the same passes when p.exists() raises for a track: nothing catches it
ScanFilesFails ==
    /\ pc = "files"
    /\ (do_missing_files \/ (do_artwork /\ MUTAGEN_OK)) /\ exists_raises(fs, tracks)
    /\ pc' = "failed"
    /\ error' = "OSError"
    /\ UNCHANGED <<tracks, tracks_by_key, issues, dup_groups, playlists, used_keys, broken_rows,
                   orphan_rows, mik_csv, mik, mik_rows, fileVars, written>>

\* "# MIK compare" with no --mik-csv, or one that does not exist; "# Write outputs"
SkipMikCompare ==
    /\ pc = "mik"
    /\ written' = written \cup report_files(OPENPYXL_OK, missing_file_rows, artwork_rows, <<>>)
    /\ pc' = "done"
    /\ UNCHANGED <<tracks, tracks_by_key, issues, dup_groups, playlists, used_keys, broken_rows,
                   orphan_rows, mik_csv, mik, mik_rows, fileVars, error>>

\* "# MIK compare" with a CSV file; "# Write outputs"
MikCompare ==
    /\ pc = "mik"
    /\ \E f \in MikCsvFiles :
          /\ mik_csv' = <<f>>
          /\ mik' = read_mik_csv(f)
          /\ mik_rows' = mik_compare(tracks, read_mik_csv(f))
          /\ written' = written \cup report_files(OPENPYXL_OK, missing_file_rows, artwork_rows,
                                                  mik_compare(tracks, read_mik_csv(f)))
    /\ pc' = "done"
    /\ UNCHANGED <<tracks, tracks_by_key, issues, dup_groups, playlists, used_keys, broken_rows,
                   orphan_rows, fileVars, error>>

\* "# MIK compare" with a --mik-csv that exists and cannot be read as a file:
\* read_mik_csv raises, and nothing catches it
MikReadFails ==
    /\ pc = "mik"
    /\ mik_csv' = <<MikDirectory>>
    /\ pc' = "failed"
    /\ error' = "IsADirectoryError"
    /\ UNCHANGED <<tracks, tracks_by_key, issues, dup_groups, playlists, used_keys, broken_rows,
                   orphan_rows, mik, mik_rows, fileVars, written>>

Next ==
    \/ (LoadTrack /\ UNCHANGED <<os_sep, normVars, envVars, toolVars, passes_run>>)
    \/ (DetectDuplicates /\ UNCHANGED <<os_sep, normVars, envVars, toolVars, passes_run>>)
    \/ (AnalysePlaylists /\ UNCHANGED <<os_sep, normVars, envVars, toolVars, passes_run>>)
    \/ (SkipMikCompare /\ UNCHANGED <<os_sep, normVars, envVars, toolVars, passes_run>>)
    \/ (MikCompare /\ UNCHANGED <<os_sep, normVars, envVars, toolVars, passes_run>>)

Spec == Init /\ [][Next]_vars

\* a run with the file passes and openpyxl, on a disk of FileSystems, over a
\* document that may be malformed
InitFiles ==
    /\ os_sep \in {"/", "\\"}
    /\ NormIdle
    /\ RunStart
    /\ do_missing_files = TRUE /\ do_artwork = TRUE /\ low_bitrate_mp3 = 320
    /\ MUTAGEN_OK \in BOOLEAN /\ OPENPYXL_OK = TRUE
    /\ fs \in FileSystems /\ music_root = NoRoot
    /\ ToolsIdle

NextFiles ==
    \/ Next
    \/ (ParseError /\ UNCHANGED <<os_sep, normVars, envVars, toolVars, passes_run>>)
    \/ (MikReadFails /\ UNCHANGED <<os_sep, normVars, envVars, toolVars, passes_run>>)
    \/ (ScanFiles /\ UNCHANGED <<os_sep, normVars, envVars, toolVars, passes_run>>)
    \/ (ScanFilesFails /\ UNCHANGED <<os_sep, normVars, envVars, toolVars, passes_run>>)

SpecFiles == InitFiles /\ [][NextFiles]_vars

\* a run over a collection of QualityElems, with either threshold
InitQuality ==
    /\ os_sep = "/"
    /\ NormIdle
    /\ RunStart
    /\ do_missing_files = FALSE /\ do_artwork = FALSE /\ low_bitrate_mp3 \in {128, 320}
    /\ MUTAGEN_OK = FALSE /\ OPENPYXL_OK = FALSE /\ fs = NoFiles /\ music_root = NoRoot
    /\ ToolsIdle

NextQuality ==
    \/ (LoadTrackFrom(QualityElems) /\ UNCHANGED <<os_sep, normVars, envVars, toolVars, passes_run>>)
    \/ (DetectDuplicates /\ UNCHANGED <<os_sep, normVars, envVars, toolVars, passes_run>>)
    \/ (DuplicatesFail /\ UNCHANGED <<os_sep, normVars, envVars, toolVars, passes_run>>)

SpecQuality == InitQuality /\ [][NextQuality]_vars

\* a run with the missing-file pass on a disk where every stat() succeeds,
\* with or without --music-root
InitRelink ==
    /\ os_sep = "/"
    /\ NormIdle
    /\ RunStart
    /\ do_missing_files = TRUE /\ do_artwork = FALSE /\ low_bitrate_mp3 = 320
    /\ MUTAGEN_OK = FALSE /\ OPENPYXL_OK = FALSE
    /\ fs \in {disk \in FileSystems : disk.stat_error = {}} \cup {NoFiles}
    /\ music_root \in MusicRoots
    /\ ToolsIdle

NextRelink ==
    \/ (LoadTrack /\ UNCHANGED <<os_sep, normVars, envVars, toolVars, passes_run>>)
    \/ (DetectDuplicates /\ UNCHANGED <<os_sep, normVars, envVars, toolVars, passes_run>>)
    \/ (AnalysePlaylists /\ UNCHANGED <<os_sep, normVars, envVars, toolVars, passes_run>>)
    \/ (ScanFiles /\ UNCHANGED <<os_sep, normVars, envVars, toolVars, passes_run>>)
    \/ (SkipMikCompare /\ UNCHANGED <<os_sep, normVars, envVars, toolVars, passes_run>>)

SpecRelink == InitRelink /\ [][NextRelink]_vars

(***************************************************************************)
(* Runs of analyse that take the five passes in any order, each once, and  *)
(* write the reports when all have run.                                    *)
(***************************************************************************)
AllPasses == {"quality", "duplicates", "playlists", "files", "mik"}

passFrame == <<os_sep, normVars, envVars, toolVars>>

InitPasses ==
    /\ os_sep = "/"
    /\ NormIdle
    /\ RunStart
    /\ do_missing_files = TRUE /\ do_artwork = FALSE /\ low_bitrate_mp3 = 320
    /\ MUTAGEN_OK = FALSE /\ OPENPYXL_OK = FALSE
    /\ fs \in {disk \in FileSystems : disk.stat_error = {}}
    /\ music_root = NoRoot
    /\ ToolsIdle

\* the collection is read to its end
EndOfCollection ==
    /\ pc = "tracks"
    /\ pc' = "passes"
    /\ UNCHANGED <<tracks, tracks_by_key, issues, dup_groups, playlists, used_keys, broken_rows,
                   orphan_rows, mik_csv, mik, mik_rows, fileVars, written, error, passes_run>>

\* "# Quality issues"
QualityPass ==
    /\ pc = "passes" /\ "quality" \notin passes_run
    /\ issues' = quality_issues(tracks, low_bitrate_mp3)
    /\ passes_run' = passes_run \cup {"quality"}
    /\ UNCHANGED <<pc, tracks, tracks_by_key, dup_groups, playlists, used_keys, broken_rows,
                   orphan_rows, mik_csv, mik, mik_rows, fileVars, written, error>>

\* "# Duplicates"
DuplicatesPass ==
    /\ pc = "passes" /\ "duplicates" \notin passes_run
    /\ ~round_raises(tracks)
    /\ dup_groups' = same_location_rows(tracks) \o same_title_rows(tracks)
                        \o signature_rows(tracks)
    /\ passes_run' = passes_run \cup {"duplicates"}
    /\ UNCHANGED <<pc, tracks, tracks_by_key, issues, playlists, used_keys, broken_rows,
                   orphan_rows, mik_csv, mik, mik_rows, fileVars, written, error>>

\* "# Playlist analysis"
PlaylistsPass ==
    /\ pc = "passes" /\ "playlists" \notin passes_run
    /\ \E doc \in PlaylistDocs :
          LET pls == parse_playlists(doc)
          IN  /\ playlists' = pls
              /\ used_keys' = used_keys_of(pls)
              /\ broken_rows' = broken_refs(pls, tracks_by_key)
              /\ orphan_rows' = orphans(tracks, tracks_by_key, used_keys_of(pls))
    /\ passes_run' = passes_run \cup {"playlists"}
    /\ UNCHANGED <<pc, tracks, tracks_by_key, issues, dup_groups, mik_csv, mik, mik_rows,
                   fileVars, written, error>>

\* "# Missing file checks"
FilesPass ==
    /\ pc = "passes" /\ "files" \notin passes_run
    /\ ~exists_raises(fs, tracks)
    /\ missing_file_rows' = missing_files(fs, tracks, relink_index(music_root))
    /\ passes_run' = passes_run \cup {"files"}
    /\ UNCHANGED <<pc, tracks, tracks_by_key, issues, dup_groups, playlists, used_keys,
                   broken_rows, orphan_rows, mik_csv, mik, mik_rows, artwork_rows,
                   no_art_paths, written, error>>

\* "# MIK compare"
MikPass ==
    /\ pc = "passes" /\ "mik" \notin passes_run
    /\ \E f \in MikCsvFiles :
          /\ mik_csv' = <<f>>
          /\ mik' = read_mik_csv(f)
          /\ mik_rows' = mik_compare(tracks, read_mik_csv(f))
    /\ passes_run' = passes_run \cup {"mik"}
    /\ UNCHANGED <<pc, tracks, tracks_by_key, issues, dup_groups, playlists, used_keys,
                   broken_rows, orphan_rows, fileVars, written, error>>

\* "# Write outputs"
WriteOutputs ==
    /\ pc = "passes" /\ passes_run = AllPasses
    /\ written' = written \cup report_files(OPENPYXL_OK, missing_file_rows, artwork_rows, mik_rows)
    /\ pc' = "done"
    /\ UNCHANGED <<tracks, tracks_by_key, issues, dup_groups, playlists, used_keys, broken_rows,
                   orphan_rows, mik_csv, mik, mik_rows, fileVars, error, passes_run>>

NextPasses ==
    \/ (LoadTrack /\ UNCHANGED <<passFrame, passes_run>>)
    \/ (EndOfCollection /\ UNCHANGED passFrame)
    \/ (QualityPass /\ UNCHANGED passFrame)
    \/ (DuplicatesPass /\ UNCHANGED passFrame)
    \/ (PlaylistsPass /\ UNCHANGED passFrame)
    \/ (FilesPass /\ UNCHANGED passFrame)
    \/ (MikPass /\ UNCHANGED passFrame)
    \/ (WriteOutputs /\ UNCHANGED passFrame)

SpecPasses == InitPasses /\ [][NextPasses]_vars

(***************************************************************************)
(* Runs of fileurl_to_path on its own.                                     *)
(***************************************************************************)
InitNorm == NormInit /\ RunIdle /\ ToolsIdle

NextNorm ==
    \/ (NormalizeRaw /\ UNCHANGED <<os_sep, runVars, envVars, fileVars, written, error, toolVars, passes_run>>)
    \/ (NormalizeRawFails /\ UNCHANGED <<os_sep, runVars, envVars, fileVars, written, error, toolVars, passes_run>>)
    \/ (NormalizePlain /\ UNCHANGED <<os_sep, runVars, envVars, fileVars, written, error, toolVars, passes_run>>)
    \/ (Renormalize /\ UNCHANGED <<os_sep, runVars, envVars, fileVars, written, error, toolVars, passes_run>>)

SpecNorm == InitNorm /\ [][NextNorm]_vars

(***************************************************************************)
(* Calls of parse_playlists on its own.                                    *)
(***************************************************************************)
analyseIdleVars == <<os_sep, normVars, runVars, envVars, fileVars, written, error, passes_run>>

InitPlaylists == os_sep = "/" /\ NormIdle /\ RunIdle /\ PlInit /\ RenIdle /\ PruneIdle /\ UpdIdle /\ GuiIdle

NextPlaylists ==
    \/ (ParseNodes /\ UNCHANGED <<analyseIdleVars, renVars, pruneVars, updVars, guiVars>>)
    \/ (DedupePlaylists /\ UNCHANGED <<analyseIdleVars, renVars, pruneVars, updVars, guiVars>>)

SpecPlaylists == InitPlaylists /\ [][NextPlaylists]_vars

(***************************************************************************)
(* Calls of rename_from_csv.                                               *)
(***************************************************************************)
InitRename == os_sep = "/" /\ NormIdle /\ RunIdle /\ PlIdle /\ RenInit /\ PruneIdle /\ UpdIdle /\ GuiIdle

NextRename ==
    \/ (RenameRow /\ UNCHANGED <<analyseIdleVars, plVars, pruneVars, updVars, guiVars>>)
    \/ (RenameReturn /\ UNCHANGED <<analyseIdleVars, plVars, pruneVars, updVars, guiVars>>)

SpecRename == InitRename /\ [][NextRename]_vars

(***************************************************************************)
(* Runs of mik_prune_missing.py.                                           *)
(***************************************************************************)
InitPrune == os_sep = "/" /\ NormIdle /\ RunIdle /\ PlIdle /\ RenIdle /\ PruneInit /\ UpdIdle /\ GuiIdle

pruneIdleVars == <<analyseIdleVars, plVars, renVars, updVars, guiVars>>

NextPrune ==
    \/ (BackupDb /\ UNCHANGED pruneIdleVars)
    \/ (SkipBackup /\ UNCHANGED pruneIdleVars)
    \/ (ScanDb /\ UNCHANGED pruneIdleVars)
    \/ (DeleteRow /\ UNCHANGED pruneIdleVars)
    \/ (CommitDeletes /\ UNCHANGED pruneIdleVars)
    \/ (DeleteFails /\ UNCHANGED pruneIdleVars)

SpecPrune == InitPrune /\ [][NextPrune]_vars

(***************************************************************************)
(* Runs of UpdateArt update, each started after the one before has ended.  *)
(***************************************************************************)
InitUpdate == os_sep = "/" /\ NormIdle /\ RunIdle /\ PlIdle /\ RenIdle /\ PruneIdle /\ UpdInit /\ GuiIdle

updIdleVars == <<analyseIdleVars, plVars, renVars, pruneVars, guiVars>>

NextUpdate ==
    \/ (\E target \in UpdTargets, no_resume \in BOOLEAN, do_reset \in BOOLEAN :
            StartRun(target, no_resume, do_reset) /\ UNCHANGED updIdleVars)
    \/ (ProcessItem /\ UNCHANGED updIdleVars)
    \/ (SaveProgress /\ UNCHANGED updIdleVars)
    \/ (InterruptItem /\ UNCHANGED updIdleVars)
    \/ (InterruptSave /\ UNCHANGED updIdleVars)
    \/ (FinishRun /\ UNCHANGED updIdleVars)

SpecUpdate == InitUpdate /\ [][NextUpdate]_vars


(***************************************************************************)
(* Tool runs started from the GUI.                                         *)
(***************************************************************************)
InitGui == os_sep = "/" /\ NormIdle /\ RunIdle /\ PlIdle /\ RenIdle /\ PruneIdle /\ UpdIdle /\ GuiIdle

guiIdleVars == <<analyseIdleVars, plVars, renVars, pruneVars, updVars>>

NextGui ==
    \/ (RunTool /\ UNCHANGED guiIdleVars)
    \/ (WorkerSetIdle /\ UNCHANGED guiIdleVars)
    \/ (WorkerEndRun /\ UNCHANGED guiIdleVars)
    \/ (WorkerExit /\ UNCHANGED guiIdleVars)
    \/ (UiCallback /\ UNCHANGED guiIdleVars)

SpecGui == InitGui /\ [][NextGui]_vars

(***************************************************************************)
(* Properties.                                                             *)
(***************************************************************************)
\* the number of rows of a sheet that satisfy P
CountRows(rows, P(_)) == Cardinality({j \in 1..Len(rows) : P(rows[j])})

\* the duplicate groups of one type
GroupsOfType(ty) == {g \in 1..Len(dup_groups) : dup_groups[g].DuplicateType = ty}
MemberSet(g) == {dup_groups[g].Members[m] : m \in 1..Len(dup_groups[g].Members)}

DuplicatesDone == pc \in {"playlists", "files", "mik", "done"}
PlaylistsDone  == pc \in {"files", "mik", "done"}
MikCompared    == pc = "done" /\ mik_csv # NoFile

\* C1: normalisation is idempotent: normalising the normalised form of a raw
\* location gives the normalised form again.
C1_Idempotent == "renorm" \in npc => renorm = norm_raw

\* C2: a file URL and a plain local path that name the same file normalise
\* to the identical string.
C2_SameFileSameNorm == {"raw", "plain"} \subseteq npc => norm_raw = norm_plain

\* C3: every two tracks that are together in a 'Signature Match' group are
\* together in a 'Same Artist+Title' group.
C3_SignatureWithinTitle ==
    DuplicatesDone =>
        \A g \in GroupsOfType("Signature Match") :
            \A i, j \in MemberSet(g) :
                i # j => \E h \in GroupsOfType("Same Artist+Title") : {i, j} \subseteq MemberSet(h)

\* C4 as stated: the tracks that have the identical normalised path, when
\* there are two or more of them, are together in exactly one 'Same Location'
\* group; a track whose normalised path no other track has is in none.
\* (Stated for the tracks that have a location.)
C4_IdenticalPathGroups ==
    DuplicatesDone =>
        \A i \in 1..Len(tracks) :
            LET same == {j \in 1..Len(tracks) : tracks[j].location_path = tracks[i].location_path}
                mine == {g \in GroupsOfType("Same Location") : i \in MemberSet(g)}
            IN  tracks[i].location_path # <<>> =>
                    IF Cardinality(same) >= 2
                    THEN Cardinality(mine) = 1 /\ \A g \in mine : same \subseteq MemberSet(g)
                    ELSE mine = {}

\* C4 amended: the tracks whose non-empty normalised paths are equal ignoring
\* case, when there are two or more of them, are exactly the members of one
\* 'Same Location' group and are in no other; a track whose path is empty, or
\* equals no other track's path ignoring case, is in none.
C4_CaseFoldedPathGroups ==
    DuplicatesDone =>
        \A i \in 1..Len(tracks) :
            LET same == {j \in 1..Len(tracks) :
                            /\ tracks[j].location_path # <<>>
                            /\ Lower(tracks[j].location_path) = Lower(tracks[i].location_path)}
                mine == {g \in GroupsOfType("Same Location") : i \in MemberSet(g)}
            IN  IF Cardinality(same) >= 2
                THEN Cardinality(mine) = 1 /\ \A g \in mine : MemberSet(g) = same
                ELSE mine = {}

\* C4 witness: a 'Same Location' group of two tracks whose paths differ in
\* case only, beside a track with a path of its own and a track with no path.
C4_Witness ==
    /\ DuplicatesDone
    /\ \E g \in GroupsOfType("Same Location") :
          \E i, j \in MemberSet(g) : tracks[i].location_path # tracks[j].location_path
    /\ \E i \in 1..Len(tracks) :
          /\ tracks[i].location_path # <<>>
          /\ \A g \in GroupsOfType("Same Location") : i \notin MemberSet(g)

\* C5: a BPM difference is reported only when the two tempos differ by
\* strictly more than the tolerance; a difference of exactly 0.75 is none.
C5_BoundaryIsNoDrift ==
    MikCompared =>
        \A j \in 1..Len(mik_rows) :
            mik_rows[j].Status \in {"BPM diff", "BPM diff, Key diff"}
                => Abs(mik_rows[j].MIK_BPM - mik_rows[j].RB_BPM) > BPM_TOL

\* C6: a playlist P and an identifier X of its member list that no loaded
\* track has give exactly one broken-reference row (P's path, X), however
\* often P lists X; an identifier that a loaded track has gives none.
C6_OneBrokenRefPerKey ==
    PlaylistsDone =>
        \A p \in 1..Len(playlists) :
            \A m \in 1..Len(playlists[p].track_keys) :
                LET k == playlists[p].track_keys[m]
                    n == CountRows(broken_rows,
                            LAMBDA r : r.PlaylistPath = playlists[p].path /\ r.MissingTrackKey = k)
                IN  IF \E i \in 1..Len(tracks) : tracks[i].track_id = k
                    THEN n = 0
                    ELSE n = 1

\* C7: every track whose identifier is in no playlist's member list has
\* exactly one orphan row.
C7_OneOrphanPerTrack ==
    PlaylistsDone =>
        \A i \in 1..Len(tracks) :
            tracks[i].track_id \notin used_keys_of(playlists)
                => CountRows(orphan_rows,
                      LAMBDA r : /\ r.TrackKey = tracks[i].track_id
                                 /\ r.TrackID = tracks[i].track_id
                                 /\ r.Artist = tracks[i].artist
                                 /\ r.Title = tracks[i].name
                                 /\ r.Location = tracks[i].location_path) = 1

\* the distinct primary normalised paths
PrimaryPaths == {tracks[i].location_path : i \in 1..Len(tracks)}

\* the lower-cased non-empty primary paths
PrimaryKeys == {Lower(p) : p \in PrimaryPaths \ {<<>>}}

\* C8 as stated: each distinct primary normalised path that is not a key of
\* the secondary mapping has exactly one 'Missing in MIK' row, each secondary
\* path that is no primary path has exactly one 'Missing in Rekordbox' row,
\* and a path in both has neither.  (Stated for the tracks that have a
\* location; a path is looked up in the mapping by its lower-case form, which
\* is how the mapping is keyed.)
C8_CoverageByPath ==
    MikCompared =>
        /\ \A p \in PrimaryPaths \ {<<>>} :
              IF Lower(p) \notin DictKeys(mik)
              THEN CountRows(mik_rows, LAMBDA r : r.Status = "Missing in MIK" /\ r.RB_Path = p) = 1
              ELSE CountRows(mik_rows, LAMBDA r : r.Status = "Missing in MIK" /\ r.RB_Path = p) = 0
        /\ \A i \in 1..Len(mik) :
              CountRows(mik_rows, LAMBDA r : r.Status = "Missing in Rekordbox"
                                               /\ r.MIK_Path = mik[i][2].path)
                 = IF mik[i][1] \notin PrimaryKeys THEN 1 ELSE 0

\* C8 amended: paths are compared in lower case and a track without a
\* location is left out.  A lower-cased non-empty primary path that is not a
\* key of the secondary mapping has exactly one 'Missing in MIK' row, a key
\* of the secondary mapping that is no lower-cased primary path has exactly
\* one 'Missing in Rekordbox' row, a path in both has neither, and there is
\* no other 'Missing' row.
C8_CoverageByLowerPath ==
    MikCompared =>
        /\ \A k \in PrimaryKeys \ DictKeys(mik) :
              CountRows(mik_rows, LAMBDA r : r.Status = "Missing in MIK" /\ Lower(r.RB_Path) = k) = 1
        /\ \A k \in DictKeys(mik) \ PrimaryKeys :
              CountRows(mik_rows, LAMBDA r : r.Status = "Missing in Rekordbox"
                                               /\ Lower(r.MIK_Path) = k) = 1
        /\ \A j \in 1..Len(mik_rows) :
              /\ mik_rows[j].Status = "Missing in MIK"
                    => Lower(mik_rows[j].RB_Path) \in PrimaryKeys \ DictKeys(mik)
              /\ mik_rows[j].Status = "Missing in Rekordbox"
                    => Lower(mik_rows[j].MIK_Path) \in DictKeys(mik) \ PrimaryKeys

\* C8 witness: a compare with a path on the primary side only, a path on the
\* secondary side only, and a path on both sides that differs in case.
C8_Witness ==
    /\ MikCompared
    /\ \E j \in 1..Len(mik_rows) : mik_rows[j].Status = "Missing in MIK"
    /\ \E j \in 1..Len(mik_rows) : mik_rows[j].Status = "Missing in Rekordbox"
    /\ \E p \in PrimaryPaths : p \notin DictKeys(mik) /\ Lower(p) \in DictKeys(mik)

\* C9: a path in both sources has exactly one drift row if the tempos differ
\* by more than the tolerance or the keys differ after normalisation, the row
\* names exactly the metrics that differ, and there is no drift row otherwise.
\* (A tempo of 0 and an empty key are unknown values and differ from nothing.)
C9_DriftRows ==
    MikCompared =>
        \A x \in 1..Len(rb_paths_of(tracks)) :
            LET k  == rb_paths_of(tracks)[x][1]
                t  == tracks[rb_paths_of(tracks)[x][2]]
                m  == DictGet(mik, k)
                bd == m.bpm # 0 /\ t.bpm # 0 /\ Abs(m.bpm - t.bpm) > BPM_TOL
                kd == Strip(m.key) # <<>> /\ t.key # <<>> /\ norm_key(m.key) # norm_key(t.key)
                drift == {j \in 1..Len(mik_rows) :
                             /\ mik_rows[j].Status \notin {"Missing in MIK", "Missing in Rekordbox"}
                             /\ Lower(mik_rows[j].RB_Path) = k}
            IN  DictHas(mik, k) =>
                    IF bd \/ kd
                    THEN /\ Cardinality(drift) = 1
                         /\ \A j \in drift :
                               mik_rows[j].Status = IF bd /\ kd THEN "BPM diff, Key diff"
                                                    ELSE IF bd THEN "BPM diff" ELSE "Key diff"
                    ELSE drift = {}

\* a CSV header with no column that matches or contains a path-like term
NoPathLikeColumn(f) ==
    \A c \in 1..Len(f.fieldnames) :
        \A a \in 1..Len(PathCands) : ~Contains(Lower(f.fieldnames[c]), PathCands[a])

\* C10: with a secondary table that has no path-like column the cross-source
\* pass is skipped: it produces no row at all.
C10_UnusableSourceSkipped ==
    (MikCompared /\ NoPathLikeColumn(mik_csv[1])) => mik_rows = <<>>

\* the run has ended
RunFailed == pc = "failed"
RunDone   == pc = "done"

\* C11: a run has two outcomes: it ends with every report file of the run
\* written (after the document was parsed to its end), or it fails and no
\* report file, the issue playlist included, has been written.
C11_FullReportOrNothing ==
    /\ RunFailed => written = {}
    /\ RunDone => written = write_m3u8(no_art_paths)
                             \cup report_files(OPENPYXL_OK, missing_file_rows, artwork_rows, mik_rows)

\* C12: once the document is parsed nothing escapes analyse: the only error
\* that ends a run is the parse error, and a track whose presence check hits a
\* filesystem error has a Missing Files row with Exists = N once the file
\* passes are over.
C12_OnlyParseErrorsEscape ==
    /\ error \in {NoError, "ParseError"}
    /\ (pc \in {"mik", "done"} /\ do_missing_files) =>
          /\ Len(missing_file_rows) = Len(tracks)
          /\ \A i \in 1..Len(tracks) :
                tracks[i].location_path \in fs.stat_error => missing_file_rows[i].Exists = "N"

\* C13: the tracks that a pass iterates over have non-empty, unique
\* identifiers: every member of a duplicate group (by location or by identity
\* key) has a TrackID, and is the track that tracks_by_key retains for it (the
\* last element of that TrackID).
C13_PassesSeeUniqueIds ==
    DuplicatesDone =>
        \A g \in GroupsOfType("Same Location") \cup GroupsOfType("Same Artist+Title") :
          \A m \in MemberSet(g) :
            /\ tracks[m].track_id # ""
            /\ DictHas(tracks_by_key, tracks[m].track_id)
            /\ DictGet(tracks_by_key, tracks[m].track_id) = m

\* the integer nearest to a tempo given in hundredths (no tempo of the model
\* lies halfway between two integers)
NearestInt(h) == (h + 50) \div 100

\* two tracks are members of one Signature Match group
SameSignatureGroup(i, j) ==
    \E g \in GroupsOfType("Signature Match") : {i, j} \subseteq MemberSet(g)

FirstEmitted(path) ==
    CHOOSE j \in 1..Len(pp_playlists) :
        /\ pp_playlists[j].path = path
        /\ \A k \in 1..(j - 1) : pp_playlists[k].path # path

\* C14: parse_playlists returns no two playlists of the same path; of the
\* playlists emitted with one path it returns the first (with its node type,
\* entry count and members); and it returns them in the order of emission.
C14_FirstOfEachPath ==
    ppc = "returned" =>
        /\ \A i, j \in 1..Len(pp_uniq) : pp_uniq[i].path = pp_uniq[j].path => i = j
        /\ {pp_uniq[i].path : i \in 1..Len(pp_uniq)}
              = {pp_playlists[j].path : j \in 1..Len(pp_playlists)}
        /\ \A i \in 1..Len(pp_uniq) : pp_uniq[i] = pp_playlists[FirstEmitted(pp_uniq[i].path)]
        /\ \A i, j \in 1..Len(pp_uniq) :
              i < j => FirstEmitted(pp_uniq[i].path) < FirstEmitted(pp_uniq[j].path)

\* a path was emitted twice, with different members
C14_Witness ==
    /\ ppc = "returned"
    /\ \E i, j \in 1..Len(pp_playlists) :
          /\ i < j
          /\ pp_playlists[i].path = pp_playlists[j].path
          /\ pp_playlists[i].track_keys # pp_playlists[j].track_keys
          /\ pp_playlists[i].entries # pp_playlists[j].entries

\* the Keys of the TRACK children of a node that follow its last child NODE:
\* the members the parser holds when the node closes
HeldAtClose(n) ==
    LET c == n.children
        after(i) == \A j \in i..Len(c) : c[j].tag = "TRACK"
        held == SelectSeq([i \in 1..Len(c) |-> <<i, c[i]>>], LAMBDA x : after(x[1]))
    IN  [j \in 1..Len(held) |-> held[j][2].attrib.Key]

RECURSIVE ExpectedPlaylists(_, _, _)
\* <<path, name>> of the playlists expected of node n and of the nodes in it,
\* in the order the nodes close; anc: the names of its ancestors below ROOT
ExpectedPlaylists(n, anc, is_root) ==
    LET nodes == SelectSeq(n.children, LAMBDA c : c.tag = "NODE")
        down  == IF is_root THEN anc ELSE Append(anc, n.attrib.Name)
        below == Flatten([i \in 1..Len(nodes) |-> ExpectedPlaylists(nodes[i], down, FALSE)])
        declared == safe_int(AttrGet(n.attrib, "Entries", Absent))
    IN  below \o
        (IF declared # 0 \/ HeldAtClose(n) # <<>>
         THEN << << Join(Append(anc, n.attrib.Name), <<"/">>), n.attrib.Name >> >>
         ELSE <<>>)

RenameEnded == ren_pc \in {"returned", "failed"}

\* a row the tool is to rename, on a given folder
RowApplies(row, disk) ==
    /\ Lower(Strip(row.apply)) \in { <<"y">>, <<"y","e","s">>, <<"t","r","u","e">>, <<"1">> }
    /\ Strip(row.suggested_filename) # <<>>
    /\ row.file_path \in DOMAIN disk
    /\ Strip(row.suggested_filename) # row.file_path

\* the (source, target) pairs of the rows that apply, in row order; with
\* --apply each rename is carried out before the next row is read
RECURSIVE ExpectedPairs(_, _, _)
ExpectedPairs(rows, disk, apply) ==
    IF rows = <<>> THEN <<>>
    ELSE LET row == Head(rows)
             dst == dedupe_target(disk, Strip(row.suggested_filename))
         IN  IF RowApplies(row, disk)
             THEN <<<<row.file_path, dst>>>> \o
                  ExpectedPairs(Tail(rows),
                                IF apply THEN path_rename(disk, row.file_path, dst) ELSE disk,
                                apply)
             ELSE ExpectedPairs(Tail(rows), disk, apply)

\* the folder after renaming the pairs one after the other
RECURSIVE ApplyPairs(_, _)
ApplyPairs(pairs, disk) ==
    IF pairs = <<>> THEN disk
    ELSE ApplyPairs(Tail(pairs), path_rename(disk, Head(pairs)[1], Head(pairs)[2]))

\* C16: the rename tool never overwrites a file: a file of the folder that
\* no row names as the source of a rename is still there with its content
\* when the run has ended, and after a run with --apply whose first row
\* applies and suggests a name that is taken, the source's content is found
\* under the first free " (i)" name
C16_NoOverwriteSuffixInstead ==
    RenameEnded =>
        /\ \A n \in DOMAIN ren_disk0 :
              (\A k \in 1..Len(ren_csv) : ren_csv[k].file_path # n)
                 => n \in DOMAIN ren_disk /\ ren_disk[n] = ren_disk0[n]
        /\ ( /\ apply_changes
             /\ ren_csv # <<>>
             /\ RowApplies(ren_csv[1], ren_disk0)
             /\ Strip(ren_csv[1].suggested_filename) \in DOMAIN ren_disk0 )
           => LET first_free == dedupe_target(ren_disk0, Strip(ren_csv[1].suggested_filename))
              IN  /\ first_free \in DOMAIN ren_disk
                  /\ ren_disk[first_free] = ren_disk0[ren_csv[1].file_path]

\* C17: the rename tool renames exactly the marked rows: when the run has
\* ended, rename_from_csv has returned, its list holds the (source, target)
\* pair of every row that applies and of no other row, its counters count
\* them, and the folder is the one those renames produce with --apply and
\* the unchanged one without
C17_RenamesMarkedRows ==
    RenameEnded =>
        /\ ren_pc = "returned"
        /\ mapping = ExpectedPairs(ren_csv, ren_disk0, apply_changes)
        /\ scanned = Len(ren_csv)
        /\ renamed = IF apply_changes THEN Len(mapping) ELSE 0
        /\ ren_disk = IF apply_changes THEN ApplyPairs(mapping, ren_disk0) ELSE ren_disk0

(***************************************************************************)
(* Prune-missing.                                                          *)
(***************************************************************************)
\* C18: rows are deleted only in a run started with --apply and without
\* --dry-run, and unless --no-backup was given a backup copy of the database
\* as it was exists before the first deletion; a dry-run leaves the
\* database unchanged
C18_BackupBeforeDelete ==
    /\ (prune_txn # prune_db0 \/ prune_db # prune_db0)
          => /\ prune_args.apply /\ ~prune_args.dry_run
             /\ ~prune_args.no_backup => prune_db0 \in prune_backups
    /\ (prune_args.dry_run \/ ~prune_args.apply)
          => prune_db = prune_db0 /\ prune_txn = prune_db0

\* a run with a backup has deleted the row of a missing file and kept a row
C18_Witness ==
    /\ prune_pc = "done"
    /\ prune_db # prune_db0 /\ prune_db # <<>>
    /\ prune_backups = {prune_db0}

(***************************************************************************)
(* UpdateArt resume.                                                       *)
(***************************************************************************)
\* the indices whose processing finished in a run before run k
FinishedBefore(k) ==
    UNION { {upd_runs[j].finished[m] : m \in 1..Len(upd_runs[j].finished)} : j \in 1..(k - 1) }

\* the first index that no run before run k finished, the length of the
\* list if there is none
FirstUnfinished(k) ==
    LET n == Len(upd_runs[k].target.files)
    IN  CHOOSE i \in 0..n :
           /\ i = n \/ i \notin FinishedBefore(k)
           /\ \A j \in 0..(i - 1) : j \in FinishedBefore(k)

\* run k and all runs before it had the same target and neither
\* --no-resume nor --reset-progress
PlainSameTarget(k) ==
    \A j \in 1..k : upd_runs[j].plain /\ upd_runs[j].target = upd_runs[1].target

\* C19: resume is automatic and lossless: in a sequence of runs of one
\* target without --no-resume and --reset-progress every run starts at the
\* first item that no earlier run finished, and a run that finds progress
\* saved for another list or mode starts at the first item
C19_ResumeLossless ==
    \A k \in 1..Len(upd_runs) :
        /\ PlainSameTarget(k) => upd_runs[k].start = FirstUnfinished(k)
        /\ ( /\ upd_runs[k].plain
             /\ upd_runs[k].saved # <<>>
             /\ \/ upd_runs[k].saved[1].mode # upd_runs[k].target.mode
                \/ upd_runs[k].saved[1].fingerprint
                      # build_list_fingerprint(upd_runs[k].target.files) )
           => upd_runs[k].start = 0

(***************************************************************************)
(* Attribute parsing and quality rules.                                    *)
(***************************************************************************)
\* the quality pass has run
QualityDone == pc \notin {"idle", "tracks"}

\* the rows of one issue, in the order of the list
IssueRows(issue) == SelectSeq(issues, LAMBDA r : r.Issue = issue)

\* one row of the issue for every track that satisfies Cond, in track order
ExpectedRows(issue, Cond(_)) ==
    Flatten([i \in 1..Len(tracks) |->
                IF Cond(tracks[i]) THEN <<issue_row(issue, tracks[i])>> ELSE <<>>])

\* text with no character other than spaces
NoText(s) == \A k \in 1..Len(s) : s[k] = " "

\* C21: a malformed or absent numeric attribute is never fatal: whatever the
\* values of the numeric attributes of the tracks loaded, no pass of the run
\* raises
C21_AttributesNeverFatal == pc # "failed"

\* C22: a track yields the low-bitrate finding if and only if its kind
\* begins with mp3 and its bitrate is below the threshold, a bitrate of 0
\* included
C22_LowBitrateRule ==
    QualityDone =>
        IssueRows(low_bitrate_issue(low_bitrate_mp3))
            = ExpectedRows(low_bitrate_issue(low_bitrate_mp3),
                           LAMBDA t : /\ StartsWith(Lower(t.kind), <<"m","p","3">>)
                                      /\ t.bitrate < low_bitrate_mp3)

\* C23: each of the seven missing-field findings is emitted exactly once for
\* a track if its own condition holds and not otherwise, whatever the other
\* rules decide and whatever the other tracks are
C23_MissingFieldRules ==
    QualityDone =>
        /\ IssueRows("Missing Artist") = ExpectedRows("Missing Artist", LAMBDA t : NoText(t.artist))
        /\ IssueRows("Missing Title") = ExpectedRows("Missing Title", LAMBDA t : NoText(t.name))
        /\ IssueRows("Missing Genre") = ExpectedRows("Missing Genre", LAMBDA t : NoText(t.genre))
        /\ IssueRows("Missing Label") = ExpectedRows("Missing Label", LAMBDA t : NoText(t.label))
        /\ IssueRows("Missing Year") = ExpectedRows("Missing Year", LAMBDA t : t.year = 0)
        /\ IssueRows("Missing/Zero BPM") = ExpectedRows("Missing/Zero BPM", LAMBDA t : t.bpm <= 0)
        /\ IssueRows("Missing Key") = ExpectedRows("Missing Key", LAMBDA t : NoText(t.key))

\* a track without a finding between two tracks with several, one of them
\* with a blank artist
C23_Witness ==
    /\ pc = "playlists" /\ Len(tracks) = 3
    /\ track_issues(tracks[2], low_bitrate_mp3) = <<>>
    /\ Len(IssueRows("Missing Artist")) = 2
    /\ Len(IssueRows("Missing Genre")) = 2
    /\ tracks[1].artist # <<>>

--------------------------------------------------------------------------------
\* Relink suggestions of the missing-files pass

FilesScanned == pc \in {"mik", "done"} /\ do_missing_files

\* the files under the relink root whose lower-cased name is that of path p,
\* as positions in discovery order
Candidates(p) ==
    { k \in 1..Len(music_root.files) :
        Lower(path_name(music_root.files[k])) = Lower(path_name(p)) }

FirstCandidate(p) ==
    music_root.files[CHOOSE k \in Candidates(p) : \A j \in Candidates(p) : k <= j]

\* C24: after the file pass there is one row per track, with the track's
\* normalized location as recorded; it says "Y" exactly for a file on disk,
\* also without a relink root; it carries a suggestion exactly if the file is
\* absent, a relink root was supplied and a file under the root has the
\* track's lower-cased filename, and the suggestion is the first such file
\* in discovery order
C24_RelinkSuggestions ==
    FilesScanned =>
        /\ Len(missing_file_rows) = Len(tracks)
        /\ \A i \in 1..Len(tracks) :
              LET t == tracks[i]
                  row == missing_file_rows[i]
                  absent == t.location_path \notin fs.present
                  found == music_root.given /\ Candidates(t.location_path) # {}
              IN  /\ row.TrackID = t.track_id
                  /\ row.Location = t.location_path
                  /\ row.Exists = (IF absent THEN "N" ELSE "Y")
                  /\ (row.RelinkSuggestion # <<>>) <=> (absent /\ found)
                  /\ (absent /\ found) => row.RelinkSuggestion = FirstCandidate(t.location_path)

\* a missing track with two files of its name under the root, the later
\* discovered one sorting first, next to a track on disk whose name is also
\* in the index
C24_Witness ==
    /\ FilesScanned
    /\ \E i, j \in 1..Len(tracks) :
          /\ missing_file_rows[i].Exists = "N"
          /\ Cardinality(Candidates(tracks[i].location_path)) = 2
          /\ missing_file_rows[i].RelinkSuggestion = <<"/","r","/","2","/","b">>
          /\ missing_file_rows[j].Exists = "Y"
          /\ Candidates(tracks[j].location_path) # {}

--------------------------------------------------------------------------------
\* Identity key

RECURSIVE RemoveEnclosed(_, _, _)
\* s without each shortest part that starts with `open` and ends with `close`
RemoveEnclosed(s, open, close) ==
    LET i == FirstOf(s, {open})
    IN  IF i > Len(s) THEN s
        ELSE LET j == FirstOf(From(s, i + 1), {close})
             IN  IF i + j > Len(s) THEN s
                 ELSE SubSeq(s, 1, i - 1) \o RemoveEnclosed(From(s, i + j + 1), open, close)

\* a text lower-cased, without parenthesised and bracketed content, every run
\* of punctuation collapsed to one space, trimmed
IdentityText(s) ==
    norm_ws(PunctToSpace(RemoveEnclosed(RemoveEnclosed(Lower(s), "(", ")"), "[", "]")))

SameIdentity(t, u) ==
    /\ IdentityText(t.artist) = IdentityText(u.artist)
    /\ IdentityText(t.name) = IdentityText(u.name)
    /\ ~(IdentityText(t.artist) = <<>> /\ IdentityText(t.name) = <<>>)

\* C25: two tracks are together in a 'Same Artist+Title' group exactly when
\* their artists and their titles are equal after lower-casing, removing the
\* content in parentheses and in square brackets, collapsing punctuation and
\* trimming, and not both empty
C25_IdentityKeyGroups ==
    DuplicatesDone =>
        \A i, j \in 1..Len(tracks) :
            i # j =>
                ((\E g \in GroupsOfType("Same Artist+Title") : {i, j} \subseteq MemberSet(g))
                    <=> SameIdentity(tracks[i], tracks[j]))

--------------------------------------------------------------------------------
\* The passes are read-only and independent of their order

\* the findings of every pass that has run are the ones the pass would
\* produce now, over the tracks and the playlists as they are now
PassFindingsStand ==
    /\ "quality" \in passes_run => issues = quality_issues(tracks, low_bitrate_mp3)
    /\ "duplicates" \in passes_run =>
          dup_groups = same_location_rows(tracks) \o same_title_rows(tracks)
                          \o signature_rows(tracks)
    /\ "playlists" \in passes_run =>
          /\ broken_rows = broken_refs(playlists, tracks_by_key)
          /\ orphan_rows = orphans(tracks, tracks_by_key, used_keys_of(playlists))
    /\ "files" \in passes_run =>
          missing_file_rows = missing_files(fs, tracks, relink_index(music_root))
    /\ "mik" \in passes_run => mik_rows = mik_compare(tracks, mik)

\* a step of a pass changes no track, no playlist that exists, and no
\* findings of a pass that has run
PassStepReadOnly ==
    /\ pc = "passes" => tracks' = tracks /\ tracks_by_key' = tracks_by_key
    /\ "playlists" \in passes_run =>
          playlists' = playlists /\ broken_rows' = broken_rows /\ orphan_rows' = orphan_rows
    /\ "quality" \in passes_run => issues' = issues
    /\ "duplicates" \in passes_run => dup_groups' = dup_groups
    /\ "files" \in passes_run => missing_file_rows' = missing_file_rows
    /\ "mik" \in passes_run => mik_rows' = mik_rows
    /\ \A q \in AllPasses \ passes_run' :
          /\ q = "quality" => issues' = <<>>
          /\ q = "duplicates" => dup_groups' = <<>>
          /\ q = "playlists" => playlists' = <<>> /\ broken_rows' = <<>> /\ orphan_rows' = <<>>
          /\ q = "files" => missing_file_rows' = <<>>
          /\ q = "mik" => mik_rows' = <<>>

\* C26: in whichever order the passes run, no pass changes a track, a
\* playlist or the findings of another pass, and the findings of each pass
\* are the ones it produces from the tracks and playlists alone
C26_PassesReadOnly == [][PassStepReadOnly]_vars /\ []PassFindingsStand

\* the last two passes of the code have run first and have findings, the
\* first three have not run
C26_Witness ==
    /\ passes_run = {"files", "mik"}
    /\ mik_rows # <<>> /\ missing_file_rows # <<>>
    /\ \E i, j \in 1..Len(tracks) : i # j /\ Lower(tracks[i].location_path) = Lower(tracks[j].location_path)

--------------------------------------------------------------------------------
\* Normalization rules

\* the result the rules give for a file locator: what follows the scheme is
\* "//host" and a path, or a path; the path with its percent-escapes decoded,
\* behind "//host" for a host other than localhost, without a leading "/"
\* directly before "<letter>:", in the separators of the platform
RuleNorm(loc) ==
    LET rest == From(loc, Len(FilePrefix) + 1)
        cut  == FirstOf(From(rest, 3), {"/"})
        host == IF StartsWith(rest, <<"/","/">>) THEN SubSeq(rest, 3, cut + 1) ELSE <<>>
        path == IF StartsWith(rest, <<"/","/">>) THEN From(rest, cut + 2) ELSE rest
        kept == IF host # <<>> /\ Lower(host) # <<"l","o","c","a","l","h","o","s","t">>
                THEN <<"/","/">> \o host \o unquote(path)
                ELSE unquote(path)
        undriven == IF Len(kept) >= 3 /\ kept[1] = "/" /\ IsAlpha(kept[2]) /\ kept[3] = ":"
                    THEN Tail(kept) ELSE kept
    IN  ReplaceChar(undriven, "/", os_sep)

\* C27: no input raises; the empty input gives the empty string; an input
\* without the file scheme comes back trimmed and otherwise unchanged; a file
\* locator comes back without its scheme, percent-decoded, a host other than
\* localhost kept as "//host/path", and without the "/" before a drive letter
C27_NormalizationRules ==
    /\ "raised" \notin npc
    /\ "raw" \in npc =>
          IF raw = <<>> THEN norm_raw = <<>>
          ELSE IF ~StartsWith(Lower(Strip(raw)), FilePrefix) THEN norm_raw = Strip(raw)
          ELSE norm_raw = RuleNorm(Strip(raw))

--------------------------------------------------------------------------------
\* Playlist member capture

\* the Keys of all TRACK children of a node, in document order
DirectKeys(n) ==
    LET ts == SelectSeq(n.children, LAMBDA c : c.tag = "TRACK")
    IN  [j \in 1..Len(ts) |-> ts[j].attrib.Key]

RECURSIVE DirectMembers(_)
\* DirectKeys of the nodes that are emitted, of node n and of the nodes in
\* it, in the order the nodes close
DirectMembers(n) ==
    LET nodes == SelectSeq(n.children, LAMBDA c : c.tag = "NODE")
        below == Flatten([i \in 1..Len(nodes) |-> DirectMembers(nodes[i])])
        declared == safe_int(AttrGet(n.attrib, "Entries", Absent))
    IN  below \o (IF declared # 0 \/ HeldAtClose(n) # <<>> THEN <<DirectKeys(n)>> ELSE <<>>)

\* C28: the members of every emitted playlist are the Keys of all TRACK
\* children of its node, in document order, wherever the child NODEs of the
\* node stand among them
C28_MembersAreDirectChildren ==
    ppc \in {"loop", "returned"} =>
        [i \in 1..Len(pp_playlists) |-> pp_playlists[i].track_keys]
          = Flatten([i \in 1..Len(xml_doc.children) |-> DirectMembers(xml_doc.children[i])])

--------------------------------------------------------------------------------
\* Orphans and de-duplicated playlists

\* the Keys of the TRACK elements in the playlist part of a document
ReferencedKeys(doc) ==
    { doc[i].attrib.Key : i \in {j \in 1..Len(doc) : doc[j].event = "start" /\ doc[j].tag = "TRACK"} }

\* C29: no orphan row names a track that a TRACK element of a playlist node
\* of the document refers to, whichever node that is (doc: each document
\* that the playlists of the run have been parsed from)
C29_ReferencedIsNoOrphan ==
    PlaylistsDone =>
        \A doc \in PlaylistDocs :
            parse_playlists(doc) = playlists =>
                \A j \in 1..Len(orphan_rows) : orphan_rows[j].TrackKey \notin ReferencedKeys(doc)

--------------------------------------------------------------------------------
\* GUI run logs

\* C30: the files of a run are ended and closed by the _end_run of that run
\* and of no other, and at most one worker thread is alive
C30_OwnRunClosesLogs ==
    /\ \A n \in 1..Len(log_files) : log_files[n].ended_by \in {0, n}
    /\ Cardinality({r \in 1..Len(threads) : threads[r] # "dead"}) <= 1

================================================================================
